---- MODULE Spec2Model ----
(***************************************************************************)
(* unraid-rrdtool: the sensor collection pipeline.                         *)
(*                                                                         *)
(*   collect_config.py  apply_transform, read_sysfs_sensor,                *)
(*                      read_unraid_disk_sensor, read_sensor, update_rrd,  *)
(*                      main                                               *)
(*   path_resolver.py   _scan_hwmon, _lookup_chip, to_container_path       *)
(*   unraid_disk.py     _parse_disks_ini, get_drive_info, get_value        *)
(*   collect_all.py     main                                               *)
(*                                                                         *)
(* Text (paths, chip names, file contents, value tokens) is a sequence of  *)
(* one-character strings, so that prefix tests, case folding, numeric      *)
(* parsing and formatting are computed character by character.  Python     *)
(* numbers are exact rationals n/d tagged with their Python type; IEEE     *)
(* rounding is not modelled, and every input set below keeps the results   *)
(* exactly representable.                                                  *)
(***************************************************************************)
EXTENDS Integers, Sequences, FiniteSets, TLC

VARIABLES
    t_value,      \* apply_transform: the argument `value`
    t_expr,       \* apply_transform: the argument `expr`
    t_result,     \* apply_transform: what the call did (return value / exception)
    t_pc,         \* "call" before the call, "done" after it
    hwmon,        \* /hostsys/class/hwmon: for each hwmonN directory, its name file
    _chip_map,    \* path_resolver._chip_map: None, or the dict in insertion order
    scans,        \* how many times _scan_hwmon has run in this process
    stale,        \* the hwmon directory has changed since the map was built
    calls,        \* how many _lookup_chip calls this process has made
    lk,           \* the last _lookup_chip call: its token and what it returned
    watch,        \* a token whose calls are followed
    first,        \* what the first call with the followed token returned
    changes,      \* how many times the hwmon directory has changed
    hwmon_links,  \* what each /hostsys/class/hwmon/hwmonN is: a directory or a symlink
    sensor_files, \* the temp1_input file of each hwmonN
    disks_ini,    \* /var/local/emhttp/disks.ini
    rewrites,     \* how many times disks.ini has been rewritten
    rd_sensor,    \* read_sensor: the argument `sensor`
    rd_source,    \* read_sensor: the argument `source_type`
    rd_result,    \* read_sensor: what the call did
    rd_pc,        \* "call" before the call, "done" after it
    config_dir,   \* /config: the *.json files by name
    entry,        \* the script that was started: collect_all.py or collect_config.py
    ca_pc,        \* collect_all.main: where it is
    config_files, \* collect_all.main: the sorted list it loops over
    ca_i,         \* collect_all.main: index of the current config
    ca_log,       \* collect_all.main: what it did with each config
    c_pc,         \* the collect_config process: where it is
    c_config,     \* the collect_config process: name of its --config file
    c_i,          \* update_rrd: index of the next sensor
    values,       \* update_rrd: the list `values`
    c_exit,       \* the collect_config process: its exit status
    reads,        \* every read_sensor call made: its sensor and what it did
    submits,      \* every rrdtool update made: its arguments and its status
    p_path,       \* to_container_path: the argument `p`
    p_result,     \* to_container_path: what the call did
    p_read,       \* what read_sysfs_sensor did with a sensor of that path
    p_pc,         \* "call", then "resolved", then "read"
    i_idsb,       \* get_drive_info: the argument `idsb`
    i_parsed,     \* what _parse_disks_ini(DISKS_INI) did
    i_info,       \* what get_drive_info(idsb) did
    i_pc,         \* "call", then "parsed", then "looked"
    rrd_file,     \* the RRD at rrd_path: absent, or what it was created with
    creates,      \* every rrdtool create made: its arguments and its status
    inits,        \* how many times init_config.py has run
    n_exit        \* the exit status of the last init_config.py run

tvars == <<t_value, t_expr, t_result, t_pc>>
cvars == <<hwmon, _chip_map, scans, stale, calls, lk, watch, first, changes>>
evars == <<hwmon_links, sensor_files, disks_ini, rewrites>>
dvars == <<rd_sensor, rd_source, rd_result, rd_pc>>
rvars == <<config_dir, entry, ca_pc, config_files, ca_i, ca_log, c_pc, c_config,
           c_i, values, c_exit, reads, submits>>
pvars == <<p_path, p_result, p_read, p_pc>>
ivars == <<i_idsb, i_parsed, i_info, i_pc>>
nvars == <<rrd_file, creates, inits, n_exit>>
vars  == <<tvars, cvars, evars, dvars, rvars, pvars, ivars, nvars>>

(***************************************************************************)
(* Bounds of the model.                                                    *)
(***************************************************************************)
MaxLit == 3      \* largest integer literal of the generated expressions
MaxVal == 7      \* largest magnitude of the generated input values
MaxCalls == 3    \* _lookup_chip calls followed in one process
MaxChanges == 1  \* changes of the hwmon directory during one process

(***************************************************************************)
(* Exact arithmetic.                                                       *)
(***************************************************************************)
Abs(x) == IF x < 0 THEN -x ELSE x

RECURSIVE GCD(_, _)
GCD(a, b) == IF b = 0 THEN a ELSE GCD(b, a % b)

\* n/d in lowest terms with a positive denominator (d # 0)
Rat(n, d) ==
    LET g == GCD(Abs(n), Abs(d))
        s == IF d < 0 THEN -1 ELSE 1
    IN  [n |-> (s * n) \div g, d |-> (s * d) \div g]

RatAdd(a, b) == Rat(a.n * b.d + b.n * a.d, a.d * b.d)
RatNeg(a)    == [n |-> -a.n, d |-> a.d]
RatSub(a, b) == RatAdd(a, RatNeg(b))
RatMul(a, b) == Rat(a.n * b.n, a.d * b.d)
RatDiv(a, b) == Rat(a.n * b.d, a.d * b.n)                 \* b.n # 0
RatFloor(a)  == a.n \div a.d                              \* a.d > 0
RatFloorDiv(a, b) == [n |-> RatFloor(RatDiv(a, b)), d |-> 1]
RatMod(a, b) == RatSub(a, RatMul(b, RatFloorDiv(a, b)))   \* sign of the divisor

RECURSIVE IntPow(_, _)
IntPow(b, e) == IF e = 0 THEN 1 ELSE b * IntPow(b, e - 1)

\* a ** e for an integer e; a.n # 0 when e < 0
RatPow(a, e) ==
    IF e >= 0 THEN [n |-> IntPow(a.n, e), d |-> IntPow(a.d, e)]
    ELSE Rat(IntPow(a.d, -e), IntPow(a.n, -e))

(***************************************************************************)
(* Python values and outcomes of a call.                                   *)
(***************************************************************************)
PyInt(k)      == [t |-> "int",   n |-> k, d |-> 1]
PyFloatV(n, d) == [t |-> "float"] @@ Rat(n, d)
PyBool(b)     == [t |-> "bool",  n |-> IF b THEN 1 ELSE 0, d |-> 1]
PyStr(s)      == [t |-> "str",   s |-> s]
PyNone        == [t |-> "NoneType"]

IsNum(v)   == v.t \in {"int", "float", "bool"}
IsIntLike(v) == v.t \in {"int", "bool"}
Q(v)       == [n |-> v.n, d |-> v.d]
NumT(a, b) == IF a.t = "float" \/ b.t = "float" THEN "float" ELSE "int"
Num(t, q)  == [t |-> t, n |-> q.n, d |-> q.d]

Ret(v)   == [exc |-> "none", val |-> v]
Raise(e) == [exc |-> e]

(***************************************************************************)
(* Text.                                                                   *)
(***************************************************************************)
Digits == <<"0", "1", "2", "3", "4", "5", "6", "7", "8", "9">>
IsDigit(c)  == \E i \in 1..10 : Digits[i] = c
DigitVal(c) == (CHOOSE i \in 1..10 : Digits[i] = c) - 1
IsSpace(c)  == c \in {" ", "\n", "\t", "\r"}

RECURSIVE DigitsToNat(_)
DigitsToNat(s) ==
    IF s = <<>> THEN 0
    ELSE DigitsToNat(SubSeq(s, 1, Len(s) - 1)) * 10 + DigitVal(s[Len(s)])

RECURSIVE LStrip(_)
LStrip(s) == IF s # <<>> /\ IsSpace(s[1]) THEN LStrip(Tail(s)) ELSE s
RECURSIVE RStrip(_)
RStrip(s) ==
    IF s # <<>> /\ IsSpace(s[Len(s)]) THEN RStrip(SubSeq(s, 1, Len(s) - 1)) ELSE s
\* str.strip()
Strip(s) == RStrip(LStrip(s))

AllDigits(s) == \A i \in 1..Len(s) : IsDigit(s[i])

\* float(str): surrounding whitespace, an optional sign, digits with at most
\* one decimal point and at least one digit.  (Exponents, underscores, inf and
\* nan are also accepted by Python; no text of the model contains them.)
ParseFloat(str) ==
    LET s0   == Strip(str)
        neg  == s0 # <<>> /\ s0[1] = "-"
        s    == IF s0 # <<>> /\ s0[1] \in {"-", "+"} THEN Tail(s0) ELSE s0
        dots == {i \in 1..Len(s) : s[i] = "."}
        ip   == IF dots = {} THEN s ELSE SubSeq(s, 1, (CHOOSE i \in dots : TRUE) - 1)
        fp   == IF dots = {} THEN <<>>
                ELSE SubSeq(s, (CHOOSE i \in dots : TRUE) + 1, Len(s))
        ok   == /\ Cardinality(dots) <= 1
                /\ AllDigits(ip) /\ AllDigits(fp)
                /\ Len(ip) + Len(fp) >= 1
        mag  == Rat(DigitsToNat(ip \o fp), IntPow(10, Len(fp)))
    IN  IF ~ok THEN Raise("ValueError")
        ELSE Ret(PyFloatV(IF neg THEN -mag.n ELSE mag.n, mag.d))

\* float(x)
PyFloat(v) ==
    IF IsNum(v) THEN Ret(Num("float", Q(v)))
    ELSE IF v.t = "str" THEN ParseFloat(v.s)
    ELSE Raise("TypeError")

RECURSIVE Repeat(_, _)
Repeat(s, k) == IF k <= 0 THEN <<>> ELSE s \o Repeat(s, k - 1)

(***************************************************************************)
(* The functions of Python's operator module that safe_operators names, on *)
(* the values an expression can produce.                                   *)
(***************************************************************************)
operator_add(a, b) ==
    IF IsNum(a) /\ IsNum(b) THEN Ret(Num(NumT(a, b), RatAdd(Q(a), Q(b))))
    ELSE IF a.t = "str" /\ b.t = "str" THEN Ret(PyStr(a.s \o b.s))
    ELSE Raise("TypeError")

operator_sub(a, b) ==
    IF IsNum(a) /\ IsNum(b) THEN Ret(Num(NumT(a, b), RatSub(Q(a), Q(b))))
    ELSE Raise("TypeError")

operator_mul(a, b) ==
    IF IsNum(a) /\ IsNum(b) THEN Ret(Num(NumT(a, b), RatMul(Q(a), Q(b))))
    ELSE IF a.t = "str" /\ IsIntLike(b) THEN Ret(PyStr(Repeat(a.s, b.n)))
    ELSE IF IsIntLike(a) /\ b.t = "str" THEN Ret(PyStr(Repeat(b.s, a.n)))
    ELSE Raise("TypeError")

operator_truediv(a, b) ==
    IF ~(IsNum(a) /\ IsNum(b)) THEN Raise("TypeError")
    ELSE IF b.n = 0 THEN Raise("ZeroDivisionError")
    ELSE Ret(Num("float", RatDiv(Q(a), Q(b))))

\* operator_floordiv rounding toward zero, as C-style integer division does
operator_floordiv_trunc(a, b) ==
    IF ~(IsNum(a) /\ IsNum(b)) THEN Raise("TypeError")
    ELSE IF b.n = 0 THEN Raise("ZeroDivisionError")
    ELSE LET q == RatDiv(Q(a), Q(b))
             k == IF q.n < 0 THEN -((-q.n) \div q.d) ELSE q.n \div q.d
         IN  Ret(Num(NumT(a, b), [n |-> k, d |-> 1]))

operator_floordiv(a, b) ==
    IF ~(IsNum(a) /\ IsNum(b)) THEN Raise("TypeError")
    ELSE IF b.n = 0 THEN Raise("ZeroDivisionError")
    ELSE Ret(Num(NumT(a, b), RatFloorDiv(Q(a), Q(b))))

\* str % x is printf formatting: with no conversion specifier in the string
\* (none of the model's strings has one) every right operand is left over.
operator_mod(a, b) ==
    IF a.t = "str" THEN Raise("TypeError")
    ELSE IF ~(IsNum(a) /\ IsNum(b)) THEN Raise("TypeError")
    ELSE IF b.n = 0 THEN Raise("ZeroDivisionError")
    ELSE Ret(Num(NumT(a, b), RatMod(Q(a), Q(b))))

\* The exponent is integer-valued in every expression of the model; a
\* fractional exponent is left undefined (the CHOOSE has no value).
operator_pow(a, b) ==
    IF ~(IsNum(a) /\ IsNum(b)) THEN Raise("TypeError")
    ELSE IF b.d # 1 THEN Ret(CHOOSE v \in {} : TRUE)
    ELSE IF b.n < 0 /\ a.n = 0 THEN Raise("ZeroDivisionError")
    ELSE IF b.n < 0 THEN Ret(Num("float", RatPow(Q(a), b.n)))
    ELSE Ret(Num(NumT(a, b), RatPow(Q(a), b.n)))

operator_pos(a) ==
    IF IsNum(a) THEN Ret(Num(NumT(a, a), Q(a))) ELSE Raise("TypeError")

operator_neg(a) ==
    IF IsNum(a) THEN Ret(Num(NumT(a, a), RatNeg(Q(a)))) ELSE Raise("TypeError")

SafeBinOps   == {"Add", "Sub", "Mult", "Div", "FloorDiv", "Mod", "Pow"}
SafeUnaryOps == {"UAdd", "USub"}
safe_operators == SafeBinOps \cup SafeUnaryOps

ApplyBin(op, a, b) ==
    CASE op = "Add"      -> operator_add(a, b)
      [] op = "Sub"      -> operator_sub(a, b)
      [] op = "Mult"     -> operator_mul(a, b)
      [] op = "Div"      -> operator_truediv(a, b)
      [] op = "FloorDiv" -> operator_floordiv(a, b)
      [] op = "Mod"      -> operator_mod(a, b)
      [] op = "Pow"      -> operator_pow(a, b)

ApplyUnary(op, a) ==
    CASE op = "UAdd" -> operator_pos(a)
      [] op = "USub" -> operator_neg(a)

(***************************************************************************)
(* Expression trees, as ast.parse(expr, mode='eval').body yields them.     *)
(***************************************************************************)
Constant(v)       == [node |-> "Constant", value |-> v]
Name(id)          == [node |-> "Name", id |-> id]
BinOp(op, l, r)   == [node |-> "BinOp", op |-> op, left |-> l, right |-> r]
UnaryOp(op, e)    == [node |-> "UnaryOp", op |-> op, operand |-> e]
OtherNode(kind)   == [node |-> kind]

\* eval_node of apply_transform.  ast.Num is an alias of ast.Constant on
\* Python 3.8+, so its branch is never taken after the Constant one.
RECURSIVE eval_node(_, _)
eval_node(node, value) ==
    IF node.node = "Constant" THEN Ret(node.value)
    ELSE IF node.node = "Name" THEN
        IF node.id = "value" THEN Ret(value) ELSE Raise("ValueError")
    ELSE IF node.node = "BinOp" THEN
        IF node.op \notin safe_operators THEN Raise("ValueError")
        ELSE LET left == eval_node(node.left, value) IN
             IF left.exc # "none" THEN left
             ELSE LET right == eval_node(node.right, value) IN
                  IF right.exc # "none" THEN right
                  ELSE ApplyBin(node.op, left.val, right.val)
    ELSE IF node.node = "UnaryOp" THEN
        IF node.op \notin safe_operators THEN Raise("ValueError")
        ELSE LET operand == eval_node(node.operand, value) IN
             IF operand.exc # "none" THEN operand
             ELSE ApplyUnary(node.op, operand.val)
    ELSE Raise("ValueError")

\* The argument expr: None, the empty string, text ast.parse rejects, or
\* text that parses to the tree `body`.
ExprNone      == [kind |-> "None"]
ExprEmpty     == [kind |-> "empty"]
ExprMalformed == [kind |-> "malformed"]
ExprTree(b)   == [kind |-> "tree", body |-> b]

\* What the except clause of apply_transform does with an exception
Rewrap(r) ==
    IF r.exc \in {"ValueError", "SyntaxError", "TypeError"}
    THEN Raise("ValueError") ELSE r

ast_parse(expr) ==
    IF expr.kind = "malformed" THEN Raise("SyntaxError") ELSE Ret(expr.body)

apply_transform(value, expr) ==
    IF expr.kind \in {"None", "empty"} THEN Ret(value)
    ELSE LET tree == ast_parse(expr) IN
         IF tree.exc # "none" THEN Rewrap(tree)
         ELSE LET r == eval_node(tree.val, value) IN
              IF r.exc # "none" THEN Rewrap(r)
              ELSE Rewrap(PyFloat(r.val))

(***************************************************************************)
(* Inputs of apply_transform.                                              *)
(***************************************************************************)
IntLits  == {0, 2, MaxLit}
Values   == {PyFloatV(v, 1) : v \in {-3, 0, MaxVal}}

LitLeaves   == {Constant(PyInt(k)) : k \in IntLits}
StrLeaves   == {Constant(PyStr(<<"5">>)), Constant(PyStr(<<"a", "b">>))}
BoolLeaves  == {Constant(PyBool(TRUE))}
OtherKinds  == {"Call", "IfExp", "Attribute", "Subscript", "Compare"}
Leaves      == LitLeaves \cup StrLeaves \cup BoolLeaves
               \cup {Constant(PyNone), Name("value"), Name("x")}
               \cup {OtherNode(k) : k \in OtherKinds}
OperandLeaves == LitLeaves \cup BoolLeaves \cup {Name("value"), OtherNode("Call")}

BinOpKinds   == SafeBinOps \cup {"BitOr"}
UnaryOpKinds == SafeUnaryOps \cup {"Not"}

\* Depth one: every operator over every pair of leaves.
Exprs1 == {BinOp(op, a, b) : op \in BinOpKinds, a \in Leaves, b \in Leaves}
          \cup {UnaryOp(op, a) : op \in UnaryOpKinds, a \in Leaves}
\* Depth two: "value * 2 + 10" shapes.  A power of a power, and `value` as the
\* exponent of a compound base, are left out: they leave the integer range of
\* the checker.
Inner  == {BinOp(op, a, b) : op \in BinOpKinds, a \in OperandLeaves, b \in OperandLeaves}
          \cup {UnaryOp(op, a) : op \in UnaryOpKinds, a \in OperandLeaves}
Exprs2 == {e \in {BinOp(op, a, b) : op \in BinOpKinds, a \in Inner, b \in OperandLeaves} :
              e.op = "Pow" =>
                  /\ ~(e.left.node = "BinOp" /\ e.left.op = "Pow")
                  /\ e.right # Name("value")}

ExprArgs == {ExprNone, ExprEmpty, ExprMalformed}
            \cup {ExprTree(b) : b \in Leaves \cup Exprs1 \cup Exprs2}

\* apply_transform(50000, "value/1000")
ExampleValue == PyFloatV(50000, 1)
ExampleExpr  == ExprTree(BinOp("Div", Name("value"), Constant(PyInt(1000))))

TransformInputs == (Values \X ExprArgs) \cup {<<ExampleValue, ExampleExpr>>}

Pending == [exc |-> "pending"]

TransformStart ==
    /\ \E in \in TransformInputs : t_value = in[1] /\ t_expr = in[2]
    /\ t_result = Pending
    /\ t_pc = "call"

CallTransform ==
    /\ t_pc = "call"
    /\ t_result' = apply_transform(t_value, t_expr)
    /\ t_pc' = "done"
    /\ UNCHANGED <<t_value, t_expr>>
    /\ UNCHANGED <<cvars, evars, dvars, rvars, pvars, ivars, nvars>>

(***************************************************************************)
(* Properties of apply_transform.                                          *)
(***************************************************************************)
RECURSIVE Nodes(_)
\* every node of a tree that eval_node can reach
Nodes(n) ==
    {n} \cup (IF n.node = "BinOp" THEN Nodes(n.left) \cup Nodes(n.right)
              ELSE IF n.node = "UnaryOp" THEN Nodes(n.operand)
              ELSE {})

IsStrOrBoolLiteral(n) == n.node = "Constant" /\ n.value.t \in {"str", "bool"}

IsDisallowedNode(n) ==
    \/ n.node \in OtherKinds
    \/ n.node = "BinOp" /\ n.op \notin SafeBinOps
    \/ n.node = "UnaryOp" /\ n.op \notin SafeUnaryOps
    \/ n.node = "Name" /\ n.id # "value"

IsGrammarNode(n) ==
    \/ n.node = "Constant" /\ n.value.t \in {"int", "float"}
    \/ n.node = "Name" /\ n.id = "value"
    \/ n.node = "BinOp" /\ n.op \in SafeBinOps
    \/ n.node = "UnaryOp" /\ n.op \in SafeUnaryOps

InGrammar(e) == e.kind = "tree" /\ \A n \in Nodes(e.body) : IsGrammarNode(n)

\* C6: an expression containing a string literal or a boolean literal makes
\* apply_transform raise; it never returns a number for it.
C6_LiteralRaises ==
    (/\ t_pc = "done"
     /\ t_expr.kind = "tree"
     /\ \E n \in Nodes(t_expr.body) : IsStrOrBoolLiteral(n))
    => t_result.exc # "none"

\* C7: an expression containing a function call, a conditional, an attribute
\* or subscript access, a comparison, an operator outside the nine allowed
\* ones or an identifier other than `value` makes apply_transform raise
\* ValueError, and the call changes nothing but its own result.
C7_DisallowedRaisesValueError ==
    (/\ t_pc = "done"
     /\ t_expr.kind = "tree"
     /\ \E n \in Nodes(t_expr.body) : IsDisallowedNode(n))
    => t_result.exc = "ValueError"

\* The arithmetic an expression of the grammar denotes once the input is
\* substituted for `value`: a rational, or undefined.
RECURSIVE Subst(_, _)
Subst(n, v) ==
    IF n.node = "Name" THEN Constant(v)
    ELSE IF n.node = "BinOp" THEN BinOp(n.op, Subst(n.left, v), Subst(n.right, v))
    ELSE IF n.node = "UnaryOp" THEN UnaryOp(n.op, Subst(n.operand, v))
    ELSE n

Defined(q) == [def |-> TRUE, q |-> q]
Undefined  == [def |-> FALSE]

RECURSIVE Arith(_)
Arith(n) ==
    IF n.node = "Constant" THEN Defined(Q(n.value))
    ELSE IF n.node = "UnaryOp" THEN
        LET x == Arith(n.operand) IN
        IF ~x.def THEN Undefined
        ELSE IF n.op = "USub" THEN Defined(Rat(0 - x.q.n, x.q.d)) ELSE x
    ELSE
        LET x == Arith(n.left)
            y == Arith(n.right)
        IN  IF ~x.def \/ ~y.def THEN Undefined
            ELSE IF n.op = "Add"  THEN Defined(Rat(x.q.n * y.q.d + y.q.n * x.q.d, x.q.d * y.q.d))
            ELSE IF n.op = "Sub"  THEN Defined(Rat(x.q.n * y.q.d - y.q.n * x.q.d, x.q.d * y.q.d))
            ELSE IF n.op = "Mult" THEN Defined(Rat(x.q.n * y.q.n, x.q.d * y.q.d))
            ELSE IF n.op = "Pow"  THEN
                IF y.q.n < 0 /\ x.q.n = 0 THEN Undefined
                ELSE IF y.q.n < 0
                     THEN Defined(Rat(IntPow(x.q.d, -y.q.n), IntPow(x.q.n, -y.q.n)))
                     ELSE Defined(Rat(IntPow(x.q.n, y.q.n), IntPow(x.q.d, y.q.n)))
            ELSE IF y.q.n = 0 THEN Undefined
            ELSE LET quot == Rat(x.q.n * y.q.d, x.q.d * y.q.n)       \* x / y
                     fl   == quot.n \div quot.d                       \* floor(x / y)
                 IN  IF n.op = "Div" THEN Defined(quot)
                     ELSE IF n.op = "FloorDiv" THEN Defined(Rat(fl, 1))
                     ELSE Defined(Rat(x.q.n * y.q.d - fl * y.q.n * x.q.d,
                                      x.q.d * y.q.d))                 \* x - y*floor(x/y)

Denoted == Arith(Subst(t_expr.body, t_value))

\* C8 as stated: for every input and every expression of the grammar
\* apply_transform returns the arithmetic result, and with an absent
\* expression it returns the input unchanged.
C8_AlwaysReturnsArithmetic ==
    t_pc = "done" =>
        /\ t_expr.kind \in {"None", "empty"} => t_result = Ret(t_value)
        /\ InGrammar(t_expr) =>
              /\ t_result.exc = "none"
              /\ Denoted.def
              /\ t_result.val = Num("float", Denoted.q)

\* C8, amended: apply_transform returns the arithmetic result as a float
\* whenever that arithmetic is defined, raises instead of returning when it
\* is not (a division, floor division or modulo by zero, zero to a negative
\* power), and returns the input unchanged when the expression is absent.
C8_ReturnsArithmeticWhenDefined ==
    t_pc = "done" =>
        /\ t_expr.kind \in {"None", "empty"} => t_result = Ret(t_value)
        /\ InGrammar(t_expr) =>
              IF Denoted.def
              THEN t_result = Ret(Num("float", Denoted.q))
              ELSE t_result.exc # "none"

\* apply_transform(50000, "value/1000") has returned 50.0
C8_Witness ==
    /\ t_pc = "done"
    /\ t_value = ExampleValue /\ t_expr = ExampleExpr
    /\ t_result = Ret(PyFloatV(50, 1))

(***************************************************************************)
(* path_resolver: the chip map.                                            *)
(***************************************************************************)
Upper == <<"A", "B", "C", "D", "E", "F", "G", "H", "I", "J", "K", "L", "M",
           "N", "O", "P", "Q", "R", "S", "T", "U", "V", "W", "X", "Y", "Z">>
Lower == <<"a", "b", "c", "d", "e", "f", "g", "h", "i", "j", "k", "l", "m",
           "n", "o", "p", "q", "r", "s", "t", "u", "v", "w", "x", "y", "z">>

UpperSet == {Upper[k] : k \in 1..26}
FoldOf   == [c \in UpperSet |-> Lower[CHOOSE k \in 1..26 : Upper[k] = c]]

\* str.casefold() on ASCII text
CaseFold(s) == [i \in 1..Len(s) |-> IF s[i] \in UpperSet THEN FoldOf[s[i]] ELSE s[i]]

\* s.startswith(p)
StartsWith(s, p) == Len(p) <= Len(s) /\ SubSeq(s, 1, Len(p)) = p

SYS_MOUNT  == <<"/", "h", "o", "s", "t", "s", "y", "s">>
HWMON_ROOT == SYS_MOUNT \o <<"/", "c", "l", "a", "s", "s", "/", "h", "w", "m", "o", "n">>

HwmonDirs   == {0, 1}
\* HWMON_ROOT / "hwmonN"
HwmonDir(k) == HWMON_ROOT \o <<"/", "h", "w", "m", "o", "n">> \o <<Digits[k + 1]>>

\* A name file: missing, unreadable, or its text.
NoNameFile     == [kind |-> "absent"]
UnreadableName == [kind |-> "unreadable"]
NameText(s)    == [kind |-> "text", text |-> s]

K10TEMP_LOWER == <<"k", "1", "0", "t", "e", "m", "p">>
NCT6775D      == <<"n", "c", "t", "6", "7", "7", "5", "d">>
NCT_UPPER     == <<"N", "C", "T">>
NCT_LOWER     == <<"n", "c", "t">>
ChipNames     == {K10TEMP_LOWER, NCT6775D, NCT_UPPER, NCT_LOWER}

NameFiles == {NoNameFile, UnreadableName, NameText(<<"\n">>)}
             \cup {NameText(n \o <<"\n">>) : n \in ChipNames}

\* m[chip] = d on a dict kept in insertion order
DictSet(m, k, v) ==
    IF \E i \in 1..Len(m) : m[i].name = k
    THEN [i \in 1..Len(m) |-> IF m[i].name = k THEN [name |-> k, path |-> v] ELSE m[i]]
    ELSE Append(m, [name |-> k, path |-> v])

\* One pass of the loop of _scan_hwmon over directory d
ScanStep(hw, m, d) ==
    IF hw[d].kind # "text" THEN m            \* no name file, or read_text raised
    ELSE LET chip == Strip(hw[d].text) IN
         IF chip = <<>> THEN m ELSE DictSet(m, chip, HwmonDir(d))

RECURSIVE ScanFrom(_, _, _)
ScanFrom(hw, order, m) ==
    IF order = <<>> THEN m
    ELSE ScanFrom(hw, Tail(order), ScanStep(hw, m, Head(order)))

\* _scan_hwmon, with glob yielding the directories in `order`
_scan_hwmon(hw, order) == ScanFrom(hw, order, <<>>)

\* the orders in which glob("hwmon*") can yield the directories
GlobOrders ==
    {o \in [1..Cardinality(HwmonDirs) -> HwmonDirs] :
        \A i, j \in DOMAIN o : i # j => o[i] # o[j]}

MapNone     == [built |-> FALSE, items |-> <<>>]
MapOf(m)    == [built |-> TRUE, items |-> m]
NotFound    == [found |-> FALSE]
Found(p)    == [found |-> TRUE, path |-> p]

\* `_chip_map is None`
NeedScanFalsy(map) == ~map.built \/ map.items = <<>>
NeedScan(map) == ~map.built

\* the first entry, in dict order, whose name satisfies the test
FirstIndex(m, S) == CHOOSE i \in S : \A j \in S : i <= j

\* the three loops of _lookup_chip over a built, non-empty map
MatchPrefixFirst(m, token) ==
    LET tcf    == CaseFold(token)
        exact  == {i \in 1..Len(m) : m[i].name = token}
        ci     == {i \in 1..Len(m) : CaseFold(m[i].name) = tcf}
        prefix == {i \in 1..Len(m) : StartsWith(CaseFold(m[i].name), tcf)}
    IN  IF exact # {} THEN Found(m[FirstIndex(m, exact)].path)
        ELSE IF prefix # {} THEN Found(m[FirstIndex(m, prefix)].path)
        ELSE IF ci # {} THEN Found(m[FirstIndex(m, ci)].path)
        ELSE NotFound

Match(m, token) ==
    LET tcf    == CaseFold(token)
        exact  == {i \in 1..Len(m) : m[i].name = token}
        ci     == {i \in 1..Len(m) : CaseFold(m[i].name) = tcf}
        prefix == {i \in 1..Len(m) : StartsWith(CaseFold(m[i].name), tcf)}
    IN  IF exact # {} THEN Found(m[FirstIndex(m, exact)].path)
        ELSE IF ci # {} THEN Found(m[FirstIndex(m, ci)].path)
        ELSE IF prefix # {} THEN Found(m[FirstIndex(m, prefix)].path)
        ELSE NotFound

\* _lookup_chip: the map after the call, whether the call scanned, the result
_lookup_chip(map, token, hw, order) ==
    LET scan == NeedScan(map)
        m    == IF scan THEN MapOf(_scan_hwmon(hw, order)) ELSE map
    IN  [map     |-> m,
         scanned |-> scan,
         result  |-> IF m.items = <<>> THEN NotFound ELSE Match(m.items, token)]

Tokens == {<<"K", "1", "0", "T", "E", "M", "P">>, NCT_LOWER, NCT_UPPER}

NoCall == [called |-> FALSE]

ChipStart ==
    /\ hwmon \in [HwmonDirs -> NameFiles]
    /\ _chip_map = MapNone
    /\ scans = 0
    /\ stale = FALSE
    /\ calls = 0
    /\ lk = NoCall
    /\ watch \in Tokens
    /\ first = NoCall
    /\ changes = 0

\* one call _lookup_chip(token)
LookupChip ==
    /\ calls < MaxCalls
    /\ \E token \in Tokens, order \in GlobOrders :
          \E r \in {_lookup_chip(_chip_map, token, hwmon, order)} :
          /\ _chip_map' = r.map
          /\ scans' = IF r.scanned THEN scans + 1 ELSE scans
          /\ stale' = IF r.scanned THEN FALSE ELSE stale
          /\ lk' = [called |-> TRUE, token |-> token, result |-> r.result,
                    stale |-> stale', n |-> calls + 1]
          /\ first' = IF token = watch /\ ~first.called THEN lk' ELSE first
    /\ calls' = calls + 1
    /\ UNCHANGED <<hwmon, watch, changes>>
    /\ UNCHANGED <<tvars, evars, dvars, rvars, pvars, ivars, nvars>>

\* the host re-enumerates its hardware: one name file changes
HwmonChange ==
    /\ changes < MaxChanges
    /\ changes' = changes + 1
    /\ \E d \in HwmonDirs, f \in NameFiles :
          /\ hwmon[d] # f
          /\ hwmon' = [hwmon EXCEPT ![d] = f]
    /\ stale' = _chip_map.built
    /\ UNCHANGED <<_chip_map, scans, calls, lk, watch, first>>
    /\ UNCHANGED <<tvars, evars, dvars, rvars, pvars, ivars, nvars>>


(***************************************************************************)
(* Properties of the chip map.                                             *)
(***************************************************************************)
PathsWhere(m, S) == {m[i].path : i \in S}
MapNames(m)      == {m[i].name : i \in 1..Len(m)}
PathOf(m, name)  == m[CHOOSE i \in 1..Len(m) : m[i].name = name].path

\* C9: _lookup_chip returns an exact name match if there is one, otherwise a
\* case-insensitive exact match, otherwise a case-insensitive prefix match,
\* otherwise not-found; with the chips k10temp and nct6775d, K10TEMP yields
\* k10temp's directory and nct yields nct6775d's.
C9_LookupPriority ==
    lk.called =>
        LET m      == _chip_map.items
            tcf    == CaseFold(lk.token)
            exact  == PathsWhere(m, {i \in 1..Len(m) : m[i].name = lk.token})
            ci     == PathsWhere(m, {i \in 1..Len(m) : CaseFold(m[i].name) = tcf})
            prefix == PathsWhere(m, {i \in 1..Len(m) :
                                        StartsWith(CaseFold(m[i].name), tcf)})
            hit(S) == lk.result.found /\ lk.result.path \in S
        IN  /\ exact # {} => hit(exact)
            /\ exact = {} /\ ci # {} => hit(ci)
            /\ exact = {} /\ ci = {} /\ prefix # {} => hit(prefix)
            /\ exact = {} /\ ci = {} /\ prefix = {} => lk.result = NotFound
            /\ MapNames(m) = {K10TEMP_LOWER, NCT6775D} =>
                  /\ lk.token = <<"K", "1", "0", "T", "E", "M", "P">> =>
                        lk.result = Found(PathOf(m, K10TEMP_LOWER))
                  /\ lk.token = NCT_LOWER =>
                        lk.result = Found(PathOf(m, NCT6775D))

\* the token nct matched the chip NCT case-insensitively although nct6775d,
\* which it is a prefix of, was scanned first
C9_Witness ==
    /\ lk.called /\ lk.token = NCT_LOWER
    /\ _chip_map.items = <<[name |-> NCT6775D, path |-> HwmonDir(1)],
                           [name |-> NCT_UPPER, path |-> HwmonDir(0)]>>
    /\ lk.result = Found(HwmonDir(0))

\* C10: _scan_hwmon runs at most once per process, and every later call with
\* a token returns what the first call with that token returned, whatever has
\* happened to the hwmon directory since and even if the scan found no chips.
C10_OneScanStableResults ==
    /\ scans <= 1
    /\ lk.called /\ lk.token = watch => first.called /\ lk.result = first.result

\* the scan found no chips, the directory then gained the chip nct, and a
\* later call with the token nct still returned not-found
C10_Witness ==
    /\ _chip_map = MapOf(<<>>)
    /\ watch = NCT_LOWER
    /\ lk.called /\ lk.token = watch /\ lk.stale
    /\ first.called /\ first.n < lk.n
    /\ \E d \in HwmonDirs : hwmon[d] = NameText(NCT_LOWER \o <<"\n">>)
    /\ lk.result = NotFound

(***************************************************************************)
(* path_resolver: to_container_path.                                       *)
(***************************************************************************)
\* s.find(sub) + 1: the first place sub occurs in s, 0 if nowhere
IndexOf(s, sub) ==
    LET at == {i \in 1..(Len(s) - Len(sub) + 1) : SubSeq(s, i, i + Len(sub) - 1) = sub}
    IN  IF at = {} THEN 0 ELSE CHOOSE i \in at : \A j \in at : i <= j

\* s.replace(old, new, 1)
Replace1(s, old, new) ==
    LET i == IndexOf(s, old)
    IN  IF i = 0 THEN s
        ELSE SubSeq(s, 1, i - 1) \o new \o SubSeq(s, i + Len(old), Len(s))

\* re.search(r"\{([^}]+)\}", s): the leftmost "{" followed by at least one
\* character other than "}" and then "}"
PlaceholderStarts(s) ==
    {i \in 1..Len(s) :
        /\ s[i] = "{"
        /\ \E j \in (i + 2)..Len(s) :
              s[j] = "}" /\ \A k \in (i + 1)..(j - 1) : s[k] # "}"}

NoMatch == [matched |-> FALSE]

re_search_placeholder(s) ==
    LET starts == PlaceholderStarts(s) IN
    IF starts = {} THEN NoMatch
    ELSE LET i == CHOOSE i \in starts : \A k \in starts : i <= k
             j == CHOOSE j \in (i + 2)..Len(s) :
                      s[j] = "}" /\ \A k \in (i + 1)..(j - 1) : s[k] # "}"
         IN  [matched |-> TRUE, chip |-> SubSeq(s, i + 1, j - 1)]

\* s.split("}", 1)[1]
AfterFirstBrace(s) == SubSeq(s, IndexOf(s, <<"}">>) + 1, Len(s))

RECURSIVE LStripSlash(_)
\* s.lstrip("/")
LStripSlash(s) == IF s # <<>> /\ s[1] = "/" THEN LStripSlash(Tail(s)) ELSE s

RECURSIVE SplitFrom(_, _, _)
SplitFrom(s, cur, acc) ==
    IF s = <<>> THEN Append(acc, cur)
    ELSE IF s[1] = "/" THEN SplitFrom(Tail(s), <<>>, Append(acc, cur))
    ELSE SplitFrom(Tail(s), Append(cur, s[1]), acc)

\* the components pathlib keeps: empty ones and "." are dropped
Parts(s) ==
    LET all == SplitFrom(s, <<>>, <<>>)
    IN  SelectSeq(all, LAMBDA c : c # <<>> /\ c # <<".">>)

RECURSIVE JoinParts(_)
JoinParts(parts) ==
    IF parts = <<>> THEN <<>>
    ELSE IF Len(parts) = 1 THEN parts[1]
    ELSE parts[1] \o <<"/">> \o JoinParts(Tail(parts))

IsAbs(s) == s # <<>> /\ s[1] = "/"

\* str(Path(s))   (a path starting with exactly two slashes keeps them in
\* pathlib; no path of the model starts that way)
PathStr(s) ==
    IF IsAbs(s) THEN <<"/">> \o JoinParts(Parts(s))
    ELSE IF Parts(s) = <<>> THEN <<".">> ELSE JoinParts(Parts(s))

\* str(base / tail)
PathJoin(base, tail) ==
    IF IsAbs(tail) THEN PathStr(tail)
    ELSE IF Parts(tail) = <<>> THEN PathStr(base)
    ELSE PathStr(base \o <<"/">> \o tail)

\* Where a hwmonN entry leads: it is a plain directory, a symlink into the
\* mounted tree, a symlink to the un-namespaced /sys, or a symlink loop.
LinkKinds   == {"dir", "rel", "abs", "loop"}
DevDir(k)   == SYS_MOUNT \o <<"/", "d", "e", "v", "i", "c", "e", "s", "/", "h", "w", "m", "o", "n">> \o <<Digits[k + 1]>>
LeakDir(k)  == <<"/", "s", "y", "s", "/", "d", "e", "v", "i", "c", "e", "s", "/", "h", "w", "m", "o", "n">> \o <<Digits[k + 1]>>
LinkTarget(k, kind) == IF kind = "rel" THEN DevDir(k) ELSE LeakDir(k)

RECURSIVE NormParts(_, _)
\* os.path.normpath: ".." removes the component before it, textually
NormParts(cur, rest) ==
    IF rest = <<>> THEN cur
    ELSE IF Head(rest) = <<".", ".">> THEN
        NormParts(IF cur = <<>> THEN cur ELSE SubSeq(cur, 1, Len(cur) - 1), Tail(rest))
    ELSE NormParts(Append(cur, Head(rest)), Tail(rest))

\* the path runs through a hwmonN entry that is a symlink loop
ThroughLoop(parts, links) ==
    \E d \in HwmonDirs :
        /\ links[d] = "loop"
        /\ Len(Parts(HwmonDir(d))) <= Len(parts)
        /\ SubSeq(parts, 1, Len(Parts(HwmonDir(d)))) = Parts(HwmonDir(d))

RECURSIVE Walk(_, _, _)
\* os.path.realpath(strict=False), component by component.  At a symlink loop
\* it gives up resolving and normalises the rest textually; pathlib then
\* raises RuntimeError if the outcome still runs through the loop.
Walk(cur, rest, links) ==
    IF rest = <<>> THEN Ret(<<"/">> \o JoinParts(cur))
    ELSE IF Head(rest) = <<".", ".">> THEN
        Walk(IF cur = <<>> THEN cur ELSE SubSeq(cur, 1, Len(cur) - 1), Tail(rest), links)
    ELSE LET nxt  == Append(cur, Head(rest))
             here == <<"/">> \o JoinParts(nxt)
             hit  == {d \in HwmonDirs : here = HwmonDir(d) /\ links[d] # "dir"}
         IN  IF hit = {} THEN Walk(nxt, Tail(rest), links)
             ELSE LET d == CHOOSE d \in hit : TRUE IN
                  IF links[d] = "loop" THEN
                      LET left == NormParts(nxt, Tail(rest)) IN
                      IF ThroughLoop(left, links) THEN Raise("RuntimeError")
                      ELSE Ret(<<"/">> \o JoinParts(left))
                  ELSE Walk(Parts(LinkTarget(d, links[d])), Tail(rest), links)

\* the working directory of the collection process
CWD == <<"/">>

\* Path(s).resolve(strict=False)
Resolve(s, links) ==
    Walk(<<>>, Parts(IF IsAbs(s) THEN s ELSE CWD \o s), links)


RECURSIVE to_container_path(_, _, _, _, _)

\* step 1: a leading /sys/ becomes /hostsys/
RewriteSys(p) ==
    IF StartsWith(p, <<"/", "s", "y", "s", "/">>) THEN Replace1(p, <<"/", "s", "y", "s", "/">>, <<"/", "h", "o", "s", "t", "s", "y", "s", "/">>) ELSE p

\* step 2: a leading /host/hwmon becomes /hostsys/class/hwmon
RewriteLegacyHwmon(s) ==
    IF StartsWith(s, <<"/", "h", "o", "s", "t", "/", "h", "w", "m", "o", "n">>) THEN Replace1(s, <<"/", "h", "o", "s", "t", "/">>, <<"/", "h", "o", "s", "t", "s", "y", "s", "/", "c", "l", "a", "s", "s", "/">>) ELSE s

\* step 3: the chip of the placeholder is looked up
LookupPlaceholder(m, map, hw, order) ==
    IF m.matched THEN _lookup_chip(map, m.chip, hw, order)
    ELSE [map |-> map, scanned |-> FALSE, result |-> NotFound]

\* step 3: a chip that resolves replaces everything up to the first "}"
SubstituteChip(s, looked) ==
    IF looked.result.found
    THEN PathJoin(looked.result.path, LStripSlash(AfterFirstBrace(s)))
    ELSE s

\* step 5 without the re-anchoring of a path that leaves through /sys/
ResolvedAsIs(s, res) ==
    IF res.exc # "none" THEN Ret(PathStr(s)) ELSE Ret(res.val)

\* step 5 without its `except Exception` clause
ReanchoredNoFallback(s, res) ==
    IF res.exc # "none" THEN res
    ELSE IF StartsWith(res.val, <<"/", "s", "y", "s", "/">>)
         THEN Ret(PathStr(Replace1(res.val, <<"/", "s", "y", "s", "/">>, <<"/", "h", "o", "s", "t", "s", "y", "s", "/">>)))
         ELSE Ret(res.val)

\* step 5: the resolved path, re-anchored when it leaves through /sys/; the
\* unresolved one if resolving raised
Reanchored(s, res) ==
    IF res.exc # "none" THEN Ret(PathStr(s))
    ELSE IF StartsWith(res.val, <<"/", "s", "y", "s", "/">>)
         THEN Ret(PathStr(Replace1(res.val, <<"/", "s", "y", "s", "/">>, <<"/", "h", "o", "s", "t", "s", "y", "s", "/">>)))
         ELSE Ret(res.val)

\* what a call that did not re-enter itself returns or raises
Returned(out, map, n_scan, n_look) ==
    [exc |-> out.exc, path |-> IF out.exc = "none" THEN out.val ELSE <<>>,
     map |-> map, scans |-> n_scan, lookups |-> n_look, depth |-> 0]

\* what the outer call returns when it re-entered itself
Reentered(r, n_scan, n_look) ==
    [exc |-> r.exc, path |-> r.path, map |-> r.map, scans |-> r.scans + n_scan,
     lookups |-> r.lookups + n_look, depth |-> r.depth + 1]

\* steps 4 and 5 with the rewritten /hostsys/{ form taken for a legacy form
\* once more
LegacyTwice(s, looked, n_scan, n_look, hw, order, links) ==
    IF StartsWith(s, <<"/", "h", "o", "s", "t", "/", "{">>)
    THEN Reentered(to_container_path(Replace1(s, <<"/", "h", "o", "s", "t", "/", "{">>, <<"/", "h", "o", "s", "t", "s", "y", "s", "/", "{">>),
                                     looked.map, hw, order, links),
                   n_scan, n_look)
    ELSE IF StartsWith(s, <<"/", "h", "o", "s", "t", "s", "y", "s", "/", "{">>)
    THEN Reentered(to_container_path(Replace1(s, <<"/", "h", "o", "s", "t", "s", "y", "s", "/", "{">>, <<"/", "h", "o", "s", "t", "s", "y", "s", "/", "_", "{">>),
                                     looked.map, hw, order, links),
                   n_scan, n_look)
    ELSE Returned(Reanchored(s, Resolve(s, links)), looked.map, n_scan, n_look)

\* steps 4 and 5: the legacy /host/{ form is rewritten and processed again;
\* anything else is resolved
LegacyOrResolve(s, looked, n_scan, n_look, hw, order, links) ==
    IF StartsWith(s, <<"/", "h", "o", "s", "t", "/", "{">>)
    THEN Reentered(to_container_path(Replace1(s, <<"/", "h", "o", "s", "t", "/", "{">>, <<"/", "h", "o", "s", "t", "s", "y", "s", "/", "{">>),
                                     looked.map, hw, order, links),
                   n_scan, n_look)
    ELSE Returned(Reanchored(s, Resolve(s, links)), looked.map, n_scan, n_look)

AfterLookup(s, m, looked, hw, order, links) ==
    LegacyOrResolve(SubstituteChip(s, looked), looked,
                    IF looked.scanned THEN 1 ELSE 0, IF m.matched THEN 1 ELSE 0,
                    hw, order, links)

AfterSearch(s, m, map, hw, order, links) ==
    AfterLookup(s, m, LookupPlaceholder(m, map, hw, order), hw, order, links)

AfterRewrite(s, map, hw, order, links) ==
    AfterSearch(s, re_search_placeholder(s), map, hw, order, links)

\* to_container_path(p): the path, with the chip map afterwards, the scans and
\* lookups made and how often it re-entered itself
to_container_path(p, map, hw, order, links) ==
    AfterRewrite(RewriteLegacyHwmon(RewriteSys(p)), map, hw, order, links)

(***************************************************************************)
(* unraid_disk: the disk-status snapshot file.                             *)
(***************************************************************************)
\* an optional value: absent, or present with a value
Absent     == <<>>
Some(x)    == <<x>>
IsSome(o)  == o # <<>>
The(o)     == o[1]

NoFile          == [exists |-> FALSE]
FileLines(ls)   == [exists |-> TRUE, lines |-> ls]

\* d.get(k) on a dict kept as a sequence of [k, v] in insertion order
DictGet(kv, k) ==
    LET at == {i \in 1..Len(kv) : kv[i].k = k}
    IN  IF at = {} THEN Absent ELSE Some(kv[CHOOSE i \in at : TRUE].v)

\* d[k] = v
DictPut(kv, k, v) ==
    IF \E i \in 1..Len(kv) : kv[i].k = k
    THEN [i \in 1..Len(kv) |-> IF kv[i].k = k THEN [k |-> k, v |-> v] ELSE kv[i]]
    ELSE Append(kv, [k |-> k, v |-> v])

RECURSIVE LStripQuote(_)
LStripQuote(s) == IF s # <<>> /\ s[1] = "\"" THEN LStripQuote(Tail(s)) ELSE s
RECURSIVE RStripQuote(_)
RStripQuote(s) ==
    IF s # <<>> /\ s[Len(s)] = "\"" THEN RStripQuote(SubSeq(s, 1, Len(s) - 1)) ELSE s
\* s.strip('"')
StripQuotes(s) == RStripQuote(LStripQuote(s))

\* re.match(r"\[([^\]]+)\]", line): group 1, if the line starts with such a header
HeaderMatch(line) ==
    LET close == IndexOf(line, <<"]">>)
    IN  IF line # <<>> /\ line[1] = "[" /\ close >= 3
        THEN Some(SubSeq(line, 2, close - 1)) ELSE Absent

\* re.match(r'([^=]+)=(.*)', line): groups 1 and 2
KeyValueMatch(line) ==
    LET eq == IndexOf(line, <<"=">>)
    IN  IF eq >= 2
        THEN Some([k |-> SubSeq(line, 1, eq - 1), v |-> SubSeq(line, eq + 1, Len(line))])
        ELSE Absent

\* a [Section] line: the section is opened (kept if it already exists)
OpenSection(st, sec) ==
    [data    |-> IF \E i \in 1..Len(st.data) : st.data[i].sec = sec
                 THEN st.data
                 ELSE Append(st.data, [sec |-> sec, kv |-> <<>>]),
     section |-> Some(sec)]

\* a key=value line inside a section
PutField(st, k, v) ==
    [data    |-> [i \in 1..Len(st.data) |->
                     IF st.data[i].sec = The(st.section)
                     THEN [sec |-> st.data[i].sec, kv |-> DictPut(st.data[i].kv, k, v)]
                     ELSE st.data[i]],
     section |-> st.section]

ParseMatched(st, hdr, kvm) ==
    IF IsSome(hdr) THEN OpenSection(st, Strip(The(hdr)))
    ELSE IF IsSome(kvm) /\ IsSome(st.section) /\ The(st.section) # <<>>
         THEN PutField(st, Strip(The(kvm).k), StripQuotes(Strip(The(kvm).v)))
         ELSE st

ParseStripped(st, line) ==
    IF line = <<>> \/ line[1] \in {"#", ";"} THEN st
    ELSE ParseMatched(st, HeaderMatch(line), KeyValueMatch(line))

\* One pass of the loop of _parse_disks_ini: st is [data, section]
ParseLine(st, raw) == ParseStripped(st, Strip(raw))

RECURSIVE ParseLines(_, _)
ParseLines(st, lines) ==
    IF lines = <<>> THEN st ELSE ParseLines(ParseLine(st, Head(lines)), Tail(lines))

\* _parse_disks_ini(DISKS_INI): the sections in file order, or FileNotFoundError
_parse_disks_ini(file) ==
    IF ~file.exists THEN Raise("FileNotFoundError")
    ELSE Ret(ParseLines([data |-> <<>>, section |-> Absent], file.lines).data)

IDSB    == <<"i", "d", "S", "b">>
SECTION == <<"_", "s", "e", "c", "t", "i", "o", "n">>

\* the loop of get_drive_info returning the last matching section instead
LastMatch(idsb, disks) ==
    LET hit == {i \in 1..Len(disks) : DictGet(disks[i].kv, IDSB) = Some(idsb)}
    IN  IF hit = {} THEN Raise("ValueError")
        ELSE LET i == CHOOSE i \in hit : \A j \in hit : j <= i
             IN  Ret(IF IsSome(DictGet(disks[i].kv, SECTION)) THEN disks[i].kv
                     ELSE Append(disks[i].kv, [k |-> SECTION, v |-> disks[i].sec]))

\* the first section whose idSb is idsb, with its name under _section
FirstMatch(idsb, disks) ==
    LET hit == {i \in 1..Len(disks) : DictGet(disks[i].kv, IDSB) = Some(idsb)}
    IN  IF hit = {} THEN Raise("ValueError")
        ELSE LET i == CHOOSE i \in hit : \A j \in hit : i <= j
             IN  Ret(IF IsSome(DictGet(disks[i].kv, SECTION)) THEN disks[i].kv
                     ELSE Append(disks[i].kv, [k |-> SECTION, v |-> disks[i].sec]))

DriveInfoFrom(idsb, disks) ==
    IF disks.exc # "none" THEN disks ELSE FirstMatch(idsb, disks.val)

\* get_drive_info(idsb) looking into the parse the process made earlier
\* instead of parsing the file again
CachedDriveInfo(idsb, file) == DriveInfoFrom(idsb, i_parsed)

\* get_drive_info(idsb)
get_drive_info(idsb, file) == DriveInfoFrom(idsb, _parse_disks_ini(file))

ValueFrom(info, key) ==
    IF info.exc # "none" THEN info ELSE Ret(DictGet(info.val, key))

\* get_value(idsb, key): Some(text), Absent for None, or the exception
get_value(idsb, key, file) == ValueFrom(get_drive_info(idsb, file), key)

(***************************************************************************)
(* The files a sysfs sensor reads.                                         *)
(***************************************************************************)
TEMP1_INPUT == <<"t", "e", "m", "p", "1", "_", "i", "n", "p", "u", "t">>

NoSensorFile     == [kind |-> "absent"]
UnreadableFile   == [kind |-> "unreadable"]
SensorText(s)    == [kind |-> "text", text |-> s]

\* the directory a hwmonN entry really is
RealDir(d, links) == IF links[d] \in {"rel", "abs"} THEN DevDir(d) ELSE HwmonDir(d)

\* Path(path).read_text(encoding="utf-8"): each hwmonN holds (or not) a file
\* temp1_input; nothing else exists under the mount
read_text(path, links, sysfiles) ==
    LET at == {d \in HwmonDirs :
                  /\ links[d] # "loop"
                  /\ path = RealDir(d, links) \o <<"/">> \o TEMP1_INPUT}
    IN  IF \E d \in HwmonDirs :
               links[d] = "loop" /\ StartsWith(path, HwmonDir(d) \o <<"/">>)
        THEN Raise("OSError")
        ELSE IF at = {} THEN
            IF \E d \in HwmonDirs : links[d] # "loop" /\ path = RealDir(d, links)
            THEN Raise("IsADirectoryError") ELSE Raise("FileNotFoundError")
        ELSE LET f == sysfiles[CHOOSE d \in at : TRUE] IN
             IF f.kind = "absent" THEN Raise("FileNotFoundError")
             ELSE IF f.kind = "unreadable" THEN Raise("PermissionError")
             ELSE Ret(f.text)

(***************************************************************************)
(* collect_config: reading one sensor.                                     *)
(***************************************************************************)
\* a sensor of the config: each key present or absent; transform is the
\* expression text (ExprNone when the key is absent)
Sensor(path, transform, disk_id, field, ds_type) ==
    [path |-> path, transform |-> transform, disk_id |-> disk_id,
     field |-> field, ds_type |-> ds_type]

TEMP == <<"t", "e", "m", "p">>

\* int(x) of a float: truncation toward zero
PyIntOf(v) ==
    PyInt(IF v.n < 0 THEN -((-v.n) \div v.d) ELSE v.n \div v.d)

\* What a reader did: the value returned (PyNone for None) or the exception
\* that left it, the diagnostic it printed, and the chip map afterwards.
Read(out, diag, map, nscans) ==
    [exc |-> out.exc, val |-> IF out.exc = "none" THEN out.val ELSE PyNone,
     diag |-> diag, map |-> map, scans |-> nscans]

\* float(text) went through: the transform is applied
Transformed(num, transform) ==
    IF num.exc = "none" THEN apply_transform(num.val, transform) ELSE num

\* the text was read: float(raw.strip())
Parsed(text) ==
    IF text.exc = "none" THEN ParseFloat(Strip(text.val)) ELSE text

\* the try block of read_sysfs_sensor with `except Exception` narrowed to
\* ValueError
SysfsResultNarrow(val, map, nscans) ==
    IF val.exc = "none" THEN Read(val, "value", map, nscans)
    ELSE IF val.exc = "ValueError" THEN Read(Ret(PyNone), "error_reading", map, nscans)
    ELSE Read(val, "none", map, nscans)

\* the try block of read_sysfs_sensor with a failure also emptying the chip
\* map of the process
SysfsResultPoison(val, map, nscans) ==
    IF val.exc = "none" THEN Read(val, "value", map, nscans)
    ELSE Read(Ret(PyNone), "error_reading", MapOf(<<>>), nscans)

\* the try block of read_sysfs_sensor: the value, or None for any exception
SysfsResult(val, map, nscans) ==
    IF val.exc = "none" THEN Read(val, "value", map, nscans)
    ELSE Read(Ret(PyNone), "error_reading", map, nscans)

\* Path(path).read_text() once to_container_path has returned
ReadTextAt(tcp, links, sysfiles) ==
    IF tcp.exc # "none" THEN Raise(tcp.exc)
    ELSE read_text(tcp.path, links, sysfiles)

SysfsReadAt(sensor, tcp, links, sysfiles) ==
    SysfsResult(Transformed(Parsed(ReadTextAt(tcp, links, sysfiles)),
                            sensor.transform),
                tcp.map, tcp.scans)

read_sysfs_sensor(sensor, map, hw, order, links, sysfiles) ==
    IF ~IsSome(sensor.path) THEN SysfsResult(Raise("KeyError"), map, 0)
    ELSE SysfsReadAt(sensor, to_container_path(The(sensor.path), map, hw, order, links),
                     links, sysfiles)

CounterTypes == {<<"C", "O", "U", "N", "T", "E", "R">>, <<"D", "E", "R", "I", "V", "E">>, <<"A", "B", "S", "O", "L", "U", "T", "E">>}

\* the end of the try block with int() applied for COUNTER only
DiskResultCounterOnly(val, sensor, map) ==
    IF val.exc = "ValueError" THEN Read(Ret(PyNone), "error_parsing", map, 0)
    ELSE IF val.exc # "none" THEN Read(Ret(PyNone), "error_reading", map, 0)
    ELSE IF sensor.ds_type = Some(<<"C", "O", "U", "N", "T", "E", "R">>)
         THEN Read(Ret(PyIntOf(val.val)), "value", map, 0)
         ELSE Read(val, "value", map, 0)

\* the end of the try block of read_unraid_disk_sensor and its handlers, once
\* field_str is bound
DiskResult(val, sensor, map) ==
    IF val.exc = "ValueError" THEN Read(Ret(PyNone), "error_parsing", map, 0)
    ELSE IF val.exc # "none" THEN Read(Ret(PyNone), "error_reading", map, 0)
    ELSE IF IsSome(sensor.ds_type) /\ The(sensor.ds_type) \in CounterTypes
         THEN Read(Ret(PyIntOf(val.val)), "value", map, 0)
         ELSE Read(val, "value", map, 0)

\* the try block without its test for "*" and "-"
DiskFieldNoSentinel(field_str, sensor, map) ==
    DiskResult(Transformed(ParseFloat(field_str), sensor.transform), sensor, map)

DiskField(field_str, sensor, map) ==
    IF field_str \in {<<"*">>, <<"-">>} THEN Read(Ret(PyNone), "skipping", map, 0)
    ELSE DiskResult(Transformed(ParseFloat(field_str), sensor.transform), sensor, map)

\* get_value returned or raised.  When it raised ValueError, the ValueError
\* handler formats field_str, which is not bound yet
DiskLookedUp(got, sensor, map) ==
    IF got.exc = "ValueError" THEN Read(Raise("UnboundLocalError"), "none", map, 0)
    ELSE IF got.exc # "none" THEN Read(Ret(PyNone), "error_reading", map, 0)
    ELSE IF ~IsSome(got.val) THEN Read(Ret(PyNone), "no_data", map, 0)
    ELSE DiskField(The(got.val), sensor, map)

\* read_unraid_disk_sensor looking the disk up before it tests disk_id
ReadDiskLookupFirst(sensor, map, file) ==
    DiskLookedUp(get_value(IF IsSome(sensor.disk_id) THEN The(sensor.disk_id) ELSE <<>>,
                           IF IsSome(sensor.field) THEN The(sensor.field) ELSE TEMP,
                           file),
                 sensor, map)

read_unraid_disk_sensor(sensor, map, file) ==
    IF ~IsSome(sensor.disk_id) \/ The(sensor.disk_id) = <<>>
    THEN Read(Ret(PyNone), "missing_disk_id", map, 0)
    ELSE DiskLookedUp(get_value(The(sensor.disk_id),
                                IF IsSome(sensor.field) THEN The(sensor.field) ELSE TEMP,
                                file),
                      sensor, map)

\* the dispatch with every unknown source type read as sysfs
ReadSensorSysfsDefault(sensor, source_type, map, hw, order, links, sysfiles, file) ==
    IF source_type = "unraid_disk" THEN read_unraid_disk_sensor(sensor, map, file)
    ELSE read_sysfs_sensor(sensor, map, hw, order, links, sysfiles)

read_sensor(sensor, source_type, map, hw, order, links, sysfiles, file) ==
    IF source_type = "sysfs"
    THEN read_sysfs_sensor(sensor, map, hw, order, links, sysfiles)
    ELSE IF source_type = "unraid_disk" THEN read_unraid_disk_sensor(sensor, map, file)
    ELSE Read(Ret(PyNone), "unknown_source_type", map, 0)

(***************************************************************************)
(* str(v) of the numbers a reader returns.                                 *)
(***************************************************************************)
RECURSIVE NatStr(_)
NatStr(n) ==
    IF n < 10 THEN <<Digits[n + 1]>> ELSE NatStr(n \div 10) \o <<Digits[(n % 10) + 1]>>

\* str of an int
IntStr(n) == IF n < 0 THEN <<"-">> \o NatStr(-n) ELSE NatStr(n)

MaxFracDigits == 15

\* the decimal digits of r/d (0 <= r < d) when the expansion terminates
RECURSIVE FracDigits(_, _, _)
FracDigits(r, d, fuel) ==
    IF r = 0 THEN <<>>
    ELSE IF fuel = 0 THEN CHOOSE s \in {} : TRUE
    ELSE <<Digits[((r * 10) \div d) + 1]>> \o FracDigits((r * 10) % d, d, fuel - 1)

\* repr of a float whose shortest decimal form is exact and lies in the
\* range repr prints without an exponent (1e-4 <= |x| < 1e16, or zero)
FloatStr(v) ==
    LET a    == Abs(v.n)
        sign == IF v.n < 0 THEN <<"-">> ELSE <<>>
    IN  IF v.d = 1 THEN sign \o NatStr(a) \o <<".", "0">>
        ELSE IF a <= (v.d - 1) \div 10000 THEN CHOOSE s \in {} : TRUE
        ELSE sign \o NatStr(a \div v.d) \o <<".">> \o FracDigits(a % v.d, v.d, MaxFracDigits)

\* str(v)
PyStrOf(v) == IF v.t = "int" THEN IntStr(v.n) ELSE FloatStr(v)

\* "U" if v is None else str(v)
Token(v) == IF v = PyNone THEN <<"U">> ELSE PyStrOf(v)

RECURSIVE JoinColon(_)
JoinColon(vs) ==
    IF vs = <<>> THEN <<>>
    ELSE IF Len(vs) = 1 THEN vs[1]
    ELSE vs[1] \o <<":">> \o JoinColon(Tail(vs))

\* "N:" + ":".join(values)
RrdValues(vs) == <<"N", ":">> \o JoinColon(vs)

(***************************************************************************)
(* One call of read_sensor.                                                *)
(***************************************************************************)
ValueDiv(k)  == ExprTree(BinOp("Div", Name("value"), Constant(PyInt(k))))
ValueMult(k) == ExprTree(BinOp("Mult", Name("value"), Constant(PyInt(k))))
CallExpr     == ExprTree(OtherNode("Call"))

HWMON0_TEMP  == <<"/", "s", "y", "s", "/", "c", "l", "a", "s", "s", "/", "h", "w", "m", "o", "n", "/", "h", "w", "m", "o", "n", "0", "/", "t", "e", "m", "p", "1", "_", "i", "n", "p", "u", "t">>
K10TEMP_TEMP == <<"/", "h", "o", "s", "t", "s", "y", "s", "/", "{", "k", "1", "0", "t", "e", "m", "p", "}", "/", "t", "e", "m", "p", "1", "_", "i", "n", "p", "u", "t">>
LEGACY1_TEMP == <<"/", "h", "o", "s", "t", "/", "h", "w", "m", "o", "n", "1", "/", "t", "e", "m", "p", "1", "_", "i", "n", "p", "u", "t">>
ZZZ_TEMP     == <<"/", "h", "o", "s", "t", "s", "y", "s", "/", "{", "z", "z", "z", "}", "/", "t", "e", "m", "p", "1", "_", "i", "n", "p", "u", "t">>
HWMON0_DIR   == <<"/", "h", "o", "s", "t", "s", "y", "s", "/", "c", "l", "a", "s", "s", "/", "h", "w", "m", "o", "n", "/", "h", "w", "m", "o", "n", "0">>

SensorPaths == {Absent, Some(HWMON0_TEMP), Some(K10TEMP_TEMP), Some(LEGACY1_TEMP),
                Some(ZZZ_TEMP), Some(HWMON0_DIR)}
ReadTransforms == {ExprNone, ValueDiv(1000), ValueDiv(0), CallExpr, ExprMalformed}
SysfsSensors == {Sensor(p, t, Absent, Absent, Absent) :
                    p \in SensorPaths, t \in ReadTransforms}

ABC123   == <<"A", "B", "C", "1", "2", "3">>
DEF456   == <<"D", "E", "F", "4", "5", "6">>
NOPE     == <<"N", "O", "P", "E">>
NUMREADS == <<"n", "u", "m", "R", "e", "a", "d", "s">>
ROTATIONAL == <<"r", "o", "t", "a", "t", "i", "o", "n", "a", "l">>
GAUGE    == <<"G", "A", "U", "G", "E">>
COUNTER  == <<"C", "O", "U", "N", "T", "E", "R">>

DiskIds    == {Absent, Some(<<>>), Some(ABC123), Some(DEF456), Some(NOPE)}
DiskFields == {Absent, Some(NUMREADS), Some(ROTATIONAL), Some(<<"s", "p", "u", "n", "d", "o", "w", "n">>)}
\* the transform "-value"
ValueNegated == ExprTree(UnaryOp("USub", Name("value")))
DiskTransforms == {ExprNone, ValueMult(2), ValueNegated, ValueDiv(0), CallExpr}
DERIVE     == <<"D", "E", "R", "I", "V", "E">>
ABSOLUTE   == <<"A", "B", "S", "O", "L", "U", "T", "E">>
DsTypes    == {Absent, Some(GAUGE), Some(COUNTER), Some(DERIVE), Some(ABSOLUTE)}
DiskSensors == {Sensor(Absent, t, i, f, ds) :
                   t \in DiskTransforms, i \in DiskIds, f \in DiskFields, ds \in DsTypes}

\* disks.ini as Unraid writes it, and after a later rewrite
StdIni == FileLines(<<<<"[", "\"", "d", "i", "s", "k", "1", "\"", "]">>, <<"i", "d", "S", "b", "=", "\"", "A", "B", "C", "1", "2", "3", "\"">>, <<"t", "e", "m", "p", "=", "\"", "3", "5", "\"">>,
                      <<"n", "u", "m", "R", "e", "a", "d", "s", "=", "\"", "1", "2", "3", "4", "\"">>, <<"r", "o", "t", "a", "t", "i", "o", "n", "a", "l", "=", "\"", "-", "\"">>, <<>>,
                      <<"[", "\"", "d", "i", "s", "k", "2", "\"", "]">>, <<"i", "d", "S", "b", "=", "\"", "D", "E", "F", "4", "5", "6", "\"">>, <<"t", "e", "m", "p", "=", "\"", "*", "\"">>,
                      <<"n", "u", "m", "R", "e", "a", "d", "s", "=", "\"", "a", "b", "c", "\"">>, <<"r", "o", "t", "a", "t", "i", "o", "n", "a", "l", "=", "\"", "1", ".", "5", "\"">>>>)
NewIni == FileLines(<<<<"[", "\"", "d", "i", "s", "k", "1", "\"", "]">>, <<"i", "d", "S", "b", "=", "\"", "D", "E", "F", "4", "5", "6", "\"">>, <<"t", "e", "m", "p", "=", "\"", "4", "1", "\"">>,
                      <<"n", "u", "m", "R", "e", "a", "d", "s", "=", "\"", "7", "\"">>>>)
DiskFiles == {NoFile, StdIni, NewIni}

SensorFiles == {NoSensorFile, UnreadableFile, SensorText(<<"5", "0", "0", "0", "0", "\n">>),
                SensorText(<<"a", "b", "c", "\n">>), SensorText(<<>>), SensorText(<<" ", "-", "3", "5", "0", "0", " ", "\n">>)}

\* a hwmonN that is a dangling or looping symlink has no readable name file,
\* and nothing can be read through a loop
EnvOK(hw, ln, sf) ==
    \A d \in HwmonDirs :
        /\ ln[d] \in {"abs", "loop"} => hw[d] = NoNameFile
        /\ ln[d] = "loop" => sf[d] = NoSensorFile

NoRead == Read(Ret(PyNone), "none", MapNone, 0)

\* the process has looked nothing up yet
FreshProcess ==
    /\ _chip_map = MapNone /\ scans = 0 /\ stale = FALSE /\ calls = 0
    /\ lk = NoCall /\ watch = NCT_LOWER /\ first = NoCall /\ changes = 0

NoSysfs ==
    /\ hwmon = [d \in HwmonDirs |-> NoNameFile]
    /\ hwmon_links = [d \in HwmonDirs |-> "dir"]
    /\ sensor_files = [d \in HwmonDirs |-> NoSensorFile]

ReadStart ==
    /\ rd_pc = "call" /\ rd_result = NoRead
    /\ FreshProcess /\ rewrites = 0
    /\ \/ /\ rd_source = "sysfs"
          /\ rd_sensor \in SysfsSensors
          /\ hwmon \in [HwmonDirs -> {NoNameFile, NameText(K10TEMP_LOWER \o <<"\n">>)}]
          /\ hwmon[1] = NoNameFile
          /\ hwmon_links \in [HwmonDirs -> LinkKinds]
          /\ hwmon_links[1] = "dir"
          /\ sensor_files \in [HwmonDirs -> SensorFiles]
          /\ sensor_files[1] \in {NoSensorFile, SensorText(<<"3", "5", "\n">>)}
          /\ EnvOK(hwmon, hwmon_links, sensor_files)
          /\ disks_ini = NoFile
       \/ /\ rd_source = "unraid_disk"
          /\ rd_sensor \in DiskSensors
          /\ NoSysfs
          /\ disks_ini \in DiskFiles
       \/ /\ rd_source = "snmp"
          /\ rd_sensor \in {Sensor(Some(K10TEMP_TEMP), ExprNone, Absent, Absent, Absent),
                            Sensor(Absent, ExprNone, Some(ABC123), Absent, Absent)}
          /\ NoSysfs
          /\ disks_ini \in {NoFile, StdIni}

\* one call read_sensor(sensor, source_type)
ReadSensor ==
    /\ rd_pc = "call"
    /\ \E order \in GlobOrders :
          \E r \in {read_sensor(rd_sensor, rd_source, _chip_map, hwmon, order,
                                hwmon_links, sensor_files, disks_ini)} :
          /\ rd_result' = r
          /\ _chip_map' = r.map
          /\ scans' = scans + r.scans
    /\ rd_pc' = "done"
    /\ UNCHANGED <<rd_sensor, rd_source>>
    /\ UNCHANGED <<hwmon, stale, calls, lk, watch, first, changes>>
    /\ UNCHANGED <<tvars, evars, rvars, pvars, ivars, nvars>>

(***************************************************************************)
(* Claims about read_sensor.                                               *)
(***************************************************************************)
\* some step of reading the sysfs sensor rd_sensor fails in this environment:
\* no path field, a placeholder naming no chip, a file that cannot be read,
\* content that is no number, or a transform that raises
SysfsStepFails ==
    \/ ~IsSome(rd_sensor.path)
    \/ \E o \in GlobOrders :
          LET p    == The(rd_sensor.path)
              m    == re_search_placeholder(p)
              tcp  == to_container_path(p, MapNone, hwmon, o, hwmon_links)
              text == read_text(tcp.path, hwmon_links, sensor_files)
          IN  \/ m.matched /\ ~_lookup_chip(MapNone, m.chip, hwmon, o).result.found
              \/ text.exc # "none"
              \/ ParseFloat(Strip(text.val)).exc # "none"
              \/ apply_transform(ParseFloat(Strip(text.val)).val,
                                 rd_sensor.transform).exc # "none"

\* C3: for a sysfs sensor, a failure at any step (missing path field,
\* unresolved chip placeholder, missing or unreadable file, non-numeric
\* content, any transform failure including division by zero) makes the read
\* return None, and no exception leaves read_sensor.
C3_SysfsFailureReturnsNone ==
    (rd_pc = "done" /\ rd_source = "sysfs") =>
        /\ rd_result.exc = "none"
        /\ SysfsStepFails => rd_result.val = PyNone

\* a readable numeric file whose transform divides by zero was read as None
C3_Witness ==
    /\ rd_pc = "done" /\ rd_source = "sysfs"
    /\ rd_sensor.path = Some(K10TEMP_TEMP)
    /\ rd_sensor.transform = ValueDiv(0)
    /\ hwmon[0] = NameText(K10TEMP_LOWER \o <<"\n">>)
    /\ sensor_files[0] = SensorText(<<"5", "0", "0", "0", "0", "\n">>)
    /\ rd_result.exc = "none" /\ rd_result.val = PyNone

(***************************************************************************)
(* The config files and the two entry points: collect_all.py, started by   *)
(* cron, and collect_config.py, started by collect_all or by hand.         *)
(***************************************************************************)
MaxSensors  == 2     \* most sensors in one config
MaxRewrites == 1     \* most rewrites of disks.ini during one invocation

\* the content of a config file: not JSON, or the keys the scripts look at
Unparsable == [json |-> FALSE]
Config(enabled, source_type, rrd_path, sensors) ==
    [json |-> TRUE, enabled |-> enabled, source_type |-> source_type,
     rrd_path |-> rrd_path, sensors |-> sensors]

\* the enabled test taking any config that has the key for enabled
EnabledIfPresent(cfg) == ~IsSome(cfg.enabled) \/ The(cfg.enabled) \in BOOLEAN

\* cfg.get("enabled", True)
Enabled(cfg) == ~IsSome(cfg.enabled) \/ The(cfg.enabled)
\* cfg.get("collection", {}).get("source_type", "sysfs")
SourceType(cfg) == IF IsSome(cfg.source_type) THEN The(cfg.source_type) ELSE "sysfs"
\* not rrd_path
NoDestination(cfg) == ~IsSome(cfg.rrd_path) \/ The(cfg.rrd_path) = <<>>

File(name, content) == [name |-> name, content |-> content]
Exists(dir, name)   == \E f \in dir : f.name = name
ContentOf(dir, name) == (CHOOSE f \in dir : f.name = name).content

CharOrder == <<".">> \o Digits \o Upper \o <<"_">> \o Lower
Ord(c)    == CHOOSE i \in 1..Len(CharOrder) : CharOrder[i] = c

RECURSIVE LexLess(_, _)
LexLess(a, b) ==
    IF a = <<>> THEN b # <<>>
    ELSE IF b = <<>> THEN FALSE
    ELSE IF a[1] = b[1] THEN LexLess(Tail(a), Tail(b))
    ELSE Ord(a[1]) < Ord(b[1])

RECURSIVE SortedDescending(_)
\* sorted(..., reverse=True)
SortedDescending(S) ==
    IF S = {} THEN <<>>
    ELSE LET m == CHOOSE x \in S : \A y \in S \ {x} : LexLess(y, x)
         IN  <<m>> \o SortedDescending(S \ {m})

RECURSIVE Sorted(_)
Sorted(S) ==
    IF S = {} THEN <<>>
    ELSE LET m == CHOOSE x \in S : \A y \in S \ {x} : LexLess(x, y)
         IN  <<m>> \o Sorted(S \ {m})

EndsWith(s, suf) ==
    Len(suf) <= Len(s) /\ SubSeq(s, Len(s) - Len(suf) + 1, Len(s)) = suf

\* CONFIG_DIR.glob("*.json")
Glob(dir) == {f.name : f \in {g \in dir : EndsWith(g.name, <<".", "j", "s", "o", "n">>)}}

(***************************************************************************)
(* The configs and environments of the runs.                               *)
(***************************************************************************)
SYSTEM_JSON == <<"s", "y", "s", "t", "e", "m", ".", "j", "s", "o", "n">>
DISKS_JSON  == <<"d", "i", "s", "k", "s", ".", "j", "s", "o", "n">>
NOTES_TXT   == <<"n", "o", "t", "e", "s", ".", "t", "x", "t">>
MISSING_JSON == <<"m", "i", "s", "s", "i", "n", "g", ".", "j", "s", "o", "n">>
RRD_PATH    == <<"/", "d", "a", "t", "a", "/", "x", ".", "r", "r", "d">>

CpuTemp     == Sensor(Some(K10TEMP_TEMP), ValueDiv(1000), Absent, Absent, Absent)
BoardTemp   == Sensor(Some(LEGACY1_TEMP), ExprNone, Absent, Absent, Absent)
NoPath      == Sensor(Absent, ExprNone, Absent, Absent, Absent)
DivByZero   == Sensor(Some(K10TEMP_TEMP), ValueDiv(0), Absent, Absent, Absent)
NoSuchChip  == Sensor(Some(ZZZ_TEMP), ExprNone, Absent, Absent, Absent)
HWMON1_TEMP == HwmonDir(1) \o <<"/">> \o TEMP1_INPUT
Hwmon1Temp  == Sensor(Some(HWMON1_TEMP), ExprNone, Absent, Absent, Absent)
RunSysfsSensors == {CpuTemp, BoardTemp, Hwmon1Temp, NoPath, DivByZero, NoSuchChip}

DiskTemp    == Sensor(Absent, ExprNone, Some(ABC123), Absent, Absent)
SpunDown    == Sensor(Absent, ExprNone, Some(DEF456), Some(TEMP), Absent)
NoSuchDisk  == Sensor(Absent, ExprNone, Some(NOPE), Absent, Absent)
DiskReads   == Sensor(Absent, ValueMult(2), Some(ABC123), Some(NUMREADS), Some(COUNTER))
NoDiskId    == Sensor(Absent, ExprNone, Absent, Absent, Absent)
RunDiskSensors == {DiskTemp, SpunDown, NoSuchDisk, DiskReads, NoDiskId}

SeqsUpTo(S, n) == UNION {[1..k -> S] : k \in 0..n}

RrdPaths == {Absent, Some(<<>>), Some(RRD_PATH)}
Enableds == {Absent, Some(TRUE), Some(FALSE)}

SysfsConfigs == {Config(e, st, p, ss) : e \in Enableds, st \in {Absent, Some("sysfs")},
                    p \in RrdPaths, ss \in SeqsUpTo(RunSysfsSensors, MaxSensors)}
DiskConfigs  == {Config(e, Some("unraid_disk"), p, ss) : e \in Enableds,
                    p \in RrdPaths, ss \in SeqsUpTo(RunDiskSensors, MaxSensors)}
OtherConfigs == {Config(e, Some("snmp"), p, ss) : e \in Enableds,
                    p \in RrdPaths, ss \in SeqsUpTo({CpuTemp, DiskTemp}, MaxSensors)}

\* the configs of a directory with several files
FewConfigs == {Unparsable,
               Config(Some(FALSE), Absent, Some(RRD_PATH), <<CpuTemp>>),
               Config(Absent, Absent, Some(RRD_PATH), <<CpuTemp>>),
               Config(Absent, Some("unraid_disk"), Some(RRD_PATH), <<NoSuchDisk>>),
               Config(Absent, Absent, Absent, <<CpuTemp>>)}

\* the machine: hwmon0 is the k10temp chip behind a symlink, hwmon1 a plain
\* directory without a name
RunStart ==
    /\ FreshProcess
    /\ hwmon = (0 :> NameText(K10TEMP_LOWER \o <<"\n">>) @@ 1 :> NoNameFile)
    /\ hwmon_links = (0 :> "rel" @@ 1 :> "dir")
    /\ rewrites = 0
    /\ \/ \E c \in SysfsConfigs :
             /\ config_dir = {File(SYSTEM_JSON, c)}
             /\ sensor_files \in {(0 :> SensorText(<<"5", "0", "0", "0", "0", "\n">>) @@ 1 :> f) :
                                     f \in {NoSensorFile, SensorText(<<"3", "5", "\n">>)}}
             /\ disks_ini = NoFile
       \/ \E c \in DiskConfigs :
             /\ config_dir = {File(SYSTEM_JSON, c)}
             /\ sensor_files = (0 :> SensorText(<<"5", "0", "0", "0", "0", "\n">>) @@ 1 :> NoSensorFile)
             /\ disks_ini \in {NoFile, StdIni}
       \/ \E c \in OtherConfigs \cup {Unparsable} :
             /\ config_dir = {File(SYSTEM_JSON, c)}
             /\ sensor_files = (0 :> SensorText(<<"5", "0", "0", "0", "0", "\n">>) @@ 1 :> NoSensorFile)
             /\ disks_ini = StdIni
       \/ /\ config_dir \in {{}, {File(NOTES_TXT, Unparsable)}}
             \cup {{File(DISKS_JSON, c), File(SYSTEM_JSON, d), File(NOTES_TXT, Unparsable)} :
                      c \in FewConfigs, d \in FewConfigs}
          /\ sensor_files = (0 :> SensorText(<<"5", "0", "0", "0", "0", "\n">>) @@ 1 :> NoSensorFile)
          /\ disks_ini = StdIni
    /\ \/ /\ entry = "collect_all"
          /\ ca_pc = "start" /\ c_pc = "idle" /\ c_config = <<>>
       \/ /\ entry = "collect_config"
          /\ Cardinality(config_dir) <= 1
          /\ ca_pc = "idle" /\ c_pc = "main"
          /\ c_config \in {f.name : f \in config_dir} \cup {MISSING_JSON}
    /\ config_files = <<>> /\ ca_i = 0 /\ ca_log = <<>>
    /\ c_i = 0 /\ values = <<>> /\ c_exit = 0
    /\ reads = <<>> /\ submits = <<>>

(***************************************************************************)
(* collect_all.main and the collect_config process, step by step.          *)
(***************************************************************************)
Logged(name, what) == [name |-> name, what |-> what]

chvars == <<stale, calls, lk, watch, first, changes>>

\* collect_all.main up to its loop: the sorted glob, exit 1 if it is empty
CollectAllMain ==
    /\ ca_pc = "start"
    /\ config_files' = Sorted(Glob(config_dir))
    /\ IF config_files' = <<>>
       THEN ca_pc' = "exit1" /\ ca_i' = ca_i
       ELSE ca_pc' = "loop" /\ ca_i' = 1
    /\ UNCHANGED <<config_dir, entry, ca_log, c_pc, c_config, c_i, values, c_exit,
                   reads, submits>>
    /\ UNCHANGED <<tvars, cvars, evars, dvars, pvars, ivars, nvars>>

\* one pass of the loop up to subprocess.run: an unparsable config is logged,
\* a disabled one skipped, any other handed to a collect_config process
ProcessConfig ==
    /\ ca_pc = "loop" /\ ca_i <= Len(config_files)
    /\ LET name == config_files[ca_i]
           cfg  == ContentOf(config_dir, name)
       IN  IF ~cfg.json THEN
               /\ ca_log' = Append(ca_log, Logged(name, "error"))
               /\ ca_i' = ca_i + 1
               /\ UNCHANGED <<ca_pc, c_pc, c_config, c_i, values, c_exit,
                              _chip_map, scans>>
           ELSE IF ~Enabled(cfg) THEN
               /\ ca_log' = Append(ca_log, Logged(name, "skipped"))
               /\ ca_i' = ca_i + 1
               /\ UNCHANGED <<ca_pc, c_pc, c_config, c_i, values, c_exit,
                              _chip_map, scans>>
           ELSE
               /\ ca_log' = Append(ca_log, Logged(name, "started"))
               /\ ca_pc' = "wait"
               /\ c_pc' = "main" /\ c_config' = name
               /\ c_i' = 0 /\ values' = <<>> /\ c_exit' = 0
               /\ _chip_map' = MapNone /\ scans' = 0
               /\ UNCHANGED ca_i
    /\ UNCHANGED <<config_dir, entry, config_files, reads, submits>>
    /\ UNCHANGED <<hwmon, chvars>>
    /\ UNCHANGED <<tvars, evars, dvars, pvars, ivars, nvars>>

\* subprocess.run returns: a non-zero return code is logged
ChildReturned ==
    /\ ca_pc = "wait" /\ c_pc = "exited"
    /\ ca_log' = IF c_exit # 0
                 THEN Append(ca_log, Logged(c_config, "failed")) ELSE ca_log
    /\ ca_i' = ca_i + 1
    /\ ca_pc' = "loop"
    /\ c_pc' = "idle"
    /\ UNCHANGED <<config_dir, entry, config_files, c_config, c_i, values, c_exit,
                   reads, submits>>
    /\ UNCHANGED <<tvars, cvars, evars, dvars, pvars, ivars, nvars>>

\* the loop is over
CollectAllComplete ==
    /\ ca_pc = "loop" /\ ca_i > Len(config_files)
    /\ ca_pc' = "done"
    /\ UNCHANGED <<config_dir, entry, config_files, ca_i, ca_log, c_pc, c_config,
                   c_i, values, c_exit, reads, submits>>
    /\ UNCHANGED <<tvars, cvars, evars, dvars, pvars, ivars, nvars>>

\* collect_config.main and update_rrd up to the loop over the sensors: exit 1
\* without the file, an uncaught exception if it is not JSON, a plain return
\* if the config is disabled
CollectConfigMain ==
    /\ c_pc = "main"
    /\ IF ~Exists(config_dir, c_config) THEN
           c_pc' = "exited" /\ c_exit' = 1 /\ UNCHANGED <<c_i, values>>
       ELSE LET cfg == ContentOf(config_dir, c_config) IN
           IF ~cfg.json THEN
               c_pc' = "exited" /\ c_exit' = 1 /\ UNCHANGED <<c_i, values>>
           ELSE IF ~Enabled(cfg) THEN
               c_pc' = "exited" /\ c_exit' = 0 /\ UNCHANGED <<c_i, values>>
           ELSE
               c_pc' = "reading" /\ c_i' = 1 /\ values' = <<>> /\ c_exit' = 0
    /\ UNCHANGED <<config_dir, entry, ca_pc, config_files, ca_i, ca_log, c_config,
                   reads, submits>>
    /\ UNCHANGED <<tvars, cvars, evars, dvars, pvars, ivars, nvars>>

\* the lookup of this sensor's disk finds no section
DiskNotFound(sensor, source_type, file) ==
    /\ source_type = "unraid_disk"
    /\ IsSome(sensor.disk_id) /\ The(sensor.disk_id) # <<>>
    /\ get_drive_info(The(sensor.disk_id), file).exc = "ValueError"

\* one pass of the loop of update_rrd: read the sensor, append its token; an
\* exception that leaves read_sensor ends the process with status 1
ReadNextSensor ==
    /\ c_pc = "reading"
    /\ LET cfg == ContentOf(config_dir, c_config) IN
       /\ c_i <= Len(cfg.sensors)
       /\ \E order \in GlobOrders :
             \E r \in {read_sensor(cfg.sensors[c_i], SourceType(cfg), _chip_map, hwmon,
                                   order, hwmon_links, sensor_files, disks_ini)} :
             /\ reads' = Append(reads,
                    [config |-> c_config, i |-> c_i, sensor |-> cfg.sensors[c_i],
                     exc |-> r.exc, val |-> r.val, diag |-> r.diag,
                     notfound |-> DiskNotFound(cfg.sensors[c_i], SourceType(cfg),
                                               disks_ini),
                     ini |-> disks_ini])
             /\ _chip_map' = r.map
             /\ scans' = scans + r.scans
             /\ IF r.exc # "none"
                THEN c_pc' = "exited" /\ c_exit' = 1 /\ UNCHANGED <<c_i, values>>
                ELSE /\ values' = Append(values, Token(r.val))
                     /\ c_i' = c_i + 1
                     /\ UNCHANGED <<c_pc, c_exit>>
    /\ UNCHANGED <<config_dir, entry, ca_pc, config_files, ca_i, ca_log, c_config,
                   submits>>
    /\ UNCHANGED <<hwmon, chvars>>
    /\ UNCHANGED <<tvars, evars, dvars, pvars, ivars, nvars>>

\* what rrdtool update can return
RrdtoolStatus == {0, 1}

\* the rest of update_rrd: without an rrd_path an error is printed and the
\* function returns; otherwise rrdtool update runs once and its status is
\* printed; either way the process ends with status 0
SubmitValues ==
    /\ c_pc = "reading"
    /\ LET cfg == ContentOf(config_dir, c_config) IN
       /\ c_i > Len(cfg.sensors)
       /\ IF NoDestination(cfg) THEN UNCHANGED submits
          ELSE \E rc \in RrdtoolStatus :
                  submits' = Append(submits,
                      [config |-> c_config, rrd_path |-> The(cfg.rrd_path),
                       rrd_values |-> RrdValues(values), tokens |-> values,
                       returncode |-> rc])
    /\ c_pc' = "exited" /\ c_exit' = 0
    /\ UNCHANGED <<config_dir, entry, ca_pc, config_files, ca_i, ca_log, c_config,
                   c_i, values, reads>>
    /\ UNCHANGED <<tvars, cvars, evars, dvars, pvars, ivars, nvars>>

\* Unraid rewrites disks.ini while a collection is reading disk sensors
DisksRewrite ==
    /\ c_pc = "reading"
    /\ SourceType(ContentOf(config_dir, c_config)) = "unraid_disk"
    /\ rewrites < MaxRewrites
    /\ disks_ini' \in DiskFiles \ {disks_ini}
    /\ rewrites' = rewrites + 1
    /\ UNCHANGED <<hwmon_links, sensor_files>>
    /\ UNCHANGED <<tvars, cvars, dvars, rvars, pvars, ivars, nvars>>

(***************************************************************************)
(* Claims about a collection run.                                          *)
(***************************************************************************)
\* the config of the collect_config process, and the reads it has made
CurrentConfig == ContentOf(config_dir, c_config)
RunReads      == SelectSeq(reads, LAMBDA r : r.config = c_config)
ReadFailed(r) == r.exc # "none" \/ r.val = PyNone

\* the collect_config process has ended after loading an enabled config
RunEnded ==
    /\ c_pc = "exited"
    /\ Exists(config_dir, c_config)
    /\ CurrentConfig.json /\ Enabled(CurrentConfig)

\* C1: for any enabled config with N sensors, update_rrd assembles exactly N
\* tokens in declared order, token i coming from sensor i, whatever reads
\* fail: "U" where the read failed, the text of the number elsewhere.
C1_TokensMatchSensors ==
    RunEnded =>
        LET n == Len(CurrentConfig.sensors) IN
        /\ Len(values) = n
        /\ Len(RunReads) = n
        /\ \A i \in 1..n :
              /\ RunReads[i].sensor = CurrentConfig.sensors[i]
              /\ values[i] = IF ReadFailed(RunReads[i]) THEN <<"U">>
                             ELSE PyStrOf(RunReads[i].val)

\* C2: when a disk sensor's disk id matches no section of disks.ini, the read
\* returns None without raising, and the run reads the remaining sensors and
\* submits.
C2_NotFoundReturnsNone ==
    /\ \A i \in 1..Len(reads) :
          reads[i].notfound => reads[i].exc = "none" /\ reads[i].val = PyNone
    /\ (RunEnded /\ \E i \in 1..Len(RunReads) : RunReads[i].notfound) =>
          /\ Len(RunReads) = Len(CurrentConfig.sensors)
          /\ ~NoDestination(CurrentConfig) =>
                \E k \in 1..Len(submits) : submits[k].config = c_config

\* C4: a config without rrd_path (missing or empty) aborts the run as a fatal
\* error before any sensor is read: no read_sensor call happens in that run.
C4_NoReadWithoutDestination ==
    /\ \A i \in 1..Len(reads) : ~NoDestination(ContentOf(config_dir, reads[i].config))
    /\ (RunEnded /\ NoDestination(CurrentConfig)) => c_exit # 0

\* collect_all has logged a failure of this config
LoggedFailed(name) ==
    \E k \in 1..Len(ca_log) : ca_log[k] = Logged(name, "failed")

\* C5: when rrdtool update returns a non-zero status, the collect_config
\* process reports failure, so that collect_all observes a non-zero return
\* code for that config; the collected values are not altered.
C5_SubmitFailureSurfaces ==
    \A k \in 1..Len(submits) :
        submits[k].returncode # 0 =>
            /\ (c_pc = "exited" /\ c_config = submits[k].config) =>
                  c_exit # 0 /\ values = submits[k].tokens
            /\ (entry = "collect_all" /\ ca_pc = "done") =>
                  LoggedFailed(submits[k].config)

(***************************************************************************)
(* to_container_path called on its own, and the sensor read made with the  *)
(* same path.                                                              *)
(***************************************************************************)
NoPathCall == Returned(Ret(<<>>), MapNone, 0, 0)

LEGACY_K10TEMP  == <<"/", "h", "o", "s", "t", "/", "{", "k", "1", "0", "t", "e", "m", "p", "}", "/", "t", "e", "m", "p", "1", "_", "i", "n", "p", "u", "t">>
LEGACY0_TEMP    == <<"/", "h", "o", "s", "t", "/", "h", "w", "m", "o", "n", "0", "/", "t", "e", "m", "p", "1", "_", "i", "n", "p", "u", "t">>
LEGACY_ROOT     == <<"/", "h", "o", "s", "t", "/", "h", "w", "m", "o", "n">>
STRAY_BRACE     == <<"/", "h", "o", "s", "t", "s", "y", "s", "/", "a", "}", "b", "/", "{", "k", "1", "0", "t", "e", "m", "p", "}", "/", "t">>
ZZZ_PARENT      == <<"/", "h", "o", "s", "t", "s", "y", "s", "/", "{", "z", "z", "z", "}", "/", ".", ".", "/", "x">>
RELATIVE_K10    == <<"{", "K", "1", "0", "}", "/", "t", "e", "m", "p", "1", "_", "i", "n", "p", "u", "t">>
EMPTY_BRACES    == <<"/", "h", "o", "s", "t", "s", "y", "s", "/", "{", "}", "/", "x">>

PathInputs ==
    {K10TEMP_TEMP, ZZZ_TEMP, LEGACY1_TEMP, HWMON0_TEMP, HWMON0_DIR,
     LEGACY_K10TEMP, LEGACY0_TEMP, LEGACY_ROOT, STRAY_BRACE, ZZZ_PARENT,
     RELATIVE_K10, EMPTY_BRACES, <<>>}

PathStart ==
    /\ p_pc = "call" /\ p_path \in PathInputs
    /\ p_result = NoPathCall /\ p_read = NoRead
    /\ FreshProcess /\ rewrites = 0 /\ disks_ini = NoFile
    /\ hwmon \in [HwmonDirs -> {NoNameFile, NameText(K10TEMP_LOWER \o <<"\n">>)}]
    /\ hwmon_links \in [HwmonDirs -> LinkKinds]
    /\ sensor_files \in [HwmonDirs -> {NoSensorFile, SensorText(<<"5", "0", "0", "0", "0", "\n">>)}]
    /\ EnvOK(hwmon, hwmon_links, sensor_files)

\* one call to_container_path(p)
CallToContainerPath ==
    /\ p_pc = "call"
    /\ \E order \in GlobOrders :
          \E r \in {to_container_path(p_path, _chip_map, hwmon, order, hwmon_links)} :
          /\ p_result' = r
          /\ _chip_map' = r.map
          /\ scans' = scans + r.scans
    /\ p_pc' = "resolved"
    /\ UNCHANGED <<p_path, p_read, hwmon, chvars>>
    /\ UNCHANGED <<tvars, evars, dvars, rvars, ivars, nvars>>

\* one call read_sysfs_sensor({"path": p}) in the same process
ReadSensorAtPath ==
    /\ p_pc = "resolved"
    /\ \E order \in GlobOrders :
          \E r \in {read_sysfs_sensor(Sensor(Some(p_path), ExprNone, Absent, Absent, Absent),
                                      _chip_map, hwmon, order, hwmon_links, sensor_files)} :
          /\ p_read' = r
          /\ _chip_map' = r.map
          /\ scans' = scans + r.scans
    /\ p_pc' = "read"
    /\ UNCHANGED <<p_path, p_result, hwmon, chvars>>
    /\ UNCHANGED <<tvars, evars, dvars, rvars, ivars, nvars>>

(***************************************************************************)
(* Claims about to_container_path.                                         *)
(***************************************************************************)
PathCalled == p_pc \in {"resolved", "read"}

\* what symlink resolution makes of an already rewritten path: the resolved
\* path kept under the mount, or the path itself if resolving failed
AsResolved(s) ==
    LET res == Resolve(s, hwmon_links) IN
    IF res.exc # "none" THEN PathStr(s)
    ELSE IF StartsWith(res.val, <<"/", "s", "y", "s", "/">>)
         THEN SYS_MOUNT \o SubSeq(res.val, 5, Len(res.val))
         ELSE res.val

\* the leftmost {name} token of a path: where it starts and ends
TokenSpans(s) ==
    {sp \in (1..Len(s)) \X (1..Len(s)) :
        /\ sp[1] + 1 < sp[2] /\ s[sp[1]] = "{" /\ s[sp[2]] = "}"
        /\ \A k \in (sp[1] + 1)..(sp[2] - 1) : s[k] # "}"}
HasToken(s)  == TokenSpans(s) # {}
TokenSpan(s) == CHOOSE sp \in TokenSpans(s) : \A o \in TokenSpans(s) : sp[1] <= o[1]
TokenChip(s) == SubSeq(s, TokenSpan(s)[1] + 1, TokenSpan(s)[2] - 1)
TokenText(s) == SubSeq(s, TokenSpan(s)[1], TokenSpan(s)[2])
AfterToken(s) == SubSeq(s, TokenSpan(s)[2] + 1, Len(s))

\* the directory the chip map of the process gives for a chip name
ChipDir(chip) == IF _chip_map.items = <<>> THEN NotFound ELSE Match(_chip_map.items, chip)

\* C11: a path with a {chip} placeholder whose chip resolves is rewritten to
\* the chip's directory followed by the rest of the path after the
\* placeholder; when the chip does not resolve, the placeholder text is left
\* in the returned path.
C11_PlaceholderSubstituted ==
    (PathCalled /\ HasToken(p_path)) =>
        LET dir == ChipDir(TokenChip(p_path)) IN
        IF dir.found
        THEN p_result.path = AsResolved(PathStr(dir.path \o <<"/">> \o AfterToken(p_path)))
        ELSE IndexOf(p_result.path, TokenText(p_path)) > 0

\* a path /host/hwmonX/FILE, and its X/FILE
AfterLegacyHwmon(p) == SubSeq(p, Len(<<"/", "h", "o", "s", "t", "/", "h", "w", "m", "o", "n">>) + 1, Len(p))
IsLegacyHwmonFile(p) ==
    /\ StartsWith(p, <<"/", "h", "o", "s", "t", "/", "h", "w", "m", "o", "n">>) /\ ~HasToken(p)
    /\ IndexOf(AfterLegacyHwmon(p), <<"/">>) \in 2..(Len(AfterLegacyHwmon(p)) - 1)

\* C12: a legacy path /host/hwmonX/FILE is normalised to
\* /hostsys/class/hwmon/hwmonX/FILE before symlinks are resolved.
C12_LegacyHwmonNormalised ==
    (PathCalled /\ IsLegacyHwmonFile(p_path)) =>
        LET norm == HWMON_ROOT \o <<"/", "h", "w", "m", "o", "n">> \o AfterLegacyHwmon(p_path)
        IN  /\ p_result.path = AsResolved(norm)
            /\ (\A d \in HwmonDirs : hwmon_links[d] = "dir") => p_result.path = norm

\* a file or directory of the mounted tree that a path of PathInputs can name
InMount(path) ==
    \/ path \in {<<"/">>, SYS_MOUNT, SYS_MOUNT \o <<"/", "c", "l", "a", "s", "s">>, HWMON_ROOT}
    \/ \E d \in HwmonDirs :
          /\ hwmon_links[d] # "loop"
          /\ \/ path = RealDir(d, hwmon_links)
             \/ /\ path = RealDir(d, hwmon_links) \o <<"/">> \o TEMP1_INPUT
                /\ sensor_files[d] # NoSensorFile

\* the path as steps 1, 2 and 4 rewrite it when no chip is substituted
Rewritten(p) ==
    LET s1 == IF StartsWith(p, <<"/", "s", "y", "s", "/">>) THEN SYS_MOUNT \o SubSeq(p, 5, Len(p)) ELSE p
        s2 == IF StartsWith(s1, <<"/", "h", "o", "s", "t", "/", "h", "w", "m", "o", "n">>)
              THEN SYS_MOUNT \o <<"/", "c", "l", "a", "s", "s">> \o SubSeq(s1, 6, Len(s1)) ELSE s1
    IN  IF StartsWith(s2, <<"/", "h", "o", "s", "t", "/", "{">>) THEN SYS_MOUNT \o SubSeq(s2, 6, Len(s2)) ELSE s2

ChipUnresolved == HasToken(p_path) /\ ~ChipDir(TokenChip(p_path)).found
ResolveFails   == Resolve(Rewritten(p_path), hwmon_links).exc # "none"

\* C13: to_container_path never raises: with an unresolved chip or a failed
\* symlink resolution it returns the best-effort path, and a sensor whose
\* returned path does not exist is read as None by read_sysfs_sensor.
C13_NeverRaisesMissingReported ==
    /\ PathCalled =>
          /\ p_result.exc = "none"
          /\ ChipUnresolved => p_result.path = AsResolved(Rewritten(p_path))
          /\ ~HasToken(p_path) /\ ResolveFails => p_result.path = PathStr(Rewritten(p_path))
    /\ (p_pc = "read" /\ ~InMount(p_result.path)) =>
          /\ p_read.exc = "none" /\ p_read.val = PyNone
          /\ p_read.diag = "error_reading"

\* hwmon0 is a symlink loop: the path came back unresolved and the sensor
\* was read as None
C13_Witness ==
    /\ p_pc = "read" /\ p_path = HWMON0_TEMP /\ hwmon_links[0] = "loop"
    /\ p_result.path = HwmonDir(0) \o <<"/">> \o TEMP1_INPUT
    /\ p_read.val = PyNone /\ p_read.exc = "none"

(***************************************************************************)
(* unraid_disk called on its own: one parse of the snapshot file, then      *)
(* lookups, with the host rewriting the file in between.                   *)
(***************************************************************************)
MaxLines   == 3
MaxLookups == 2

L_BLANK    == <<" ", " ">>
L_HASH     == <<"#", " ", "c">>
L_SEMI     == <<";", "c">>
L_DISK1    == <<"[", "D", "i", "s", "k", "1", "]">>
L_DISK2    == <<"[", " ", "D", "i", "s", "k", "2", " ", "]">>
L_UNNAMED  == <<"[", " ", "]">>
L_ABC      == <<"i", "d", "S", "b", "=", "A", "B", "C", "1", "2", "3">>
L_QUOTED   == <<" ", "i", "d", "S", "b", " ", "=", " ", "\"", "A", "B", "C", "1", "2", "3", "\"">>
L_SECTION  == <<"_", "s", "e", "c", "t", "i", "o", "n", "=", "z", "z">>
L_GARBAGE  == <<"g", "a", "r", "b", "a", "g", "e">>
L_NOKEY    == <<"=", "5">>
LineKinds  == {L_BLANK, L_HASH, L_SEMI, L_DISK1, L_DISK2, L_UNNAMED, L_ABC,
               L_QUOTED, L_SECTION, L_GARBAGE, L_NOKEY}

\* one comment line, one blank line and a [Disk1] section containing idSb=ABC123
ExampleIni  == FileLines(<<L_HASH, <<>>, L_DISK1, L_ABC>>)
\* two sections of the same idSb
TwoMatchIni == FileLines(<<L_DISK1, L_ABC, L_DISK2, L_QUOTED>>)

\* the files the host writes over one another
HostFiles == {NoFile, StdIni, NewIni, ExampleIni, TwoMatchIni}
IniFiles  == HostFiles \cup {FileLines(ls) : ls \in SeqsUpTo(LineKinds, MaxLines)}

IniStart ==
    /\ i_pc = "call" /\ i_idsb \in {ABC123, DEF456}
    /\ i_parsed = Ret(<<>>) /\ i_info = <<>>
    /\ disks_ini \in IniFiles /\ rewrites = 0
    /\ hwmon_links = [d \in HwmonDirs |-> "dir"]
    /\ sensor_files = [d \in HwmonDirs |-> NoSensorFile]

\* one call _parse_disks_ini(DISKS_INI)
ParseDisksIni ==
    /\ i_pc = "call"
    /\ i_parsed' = _parse_disks_ini(disks_ini)
    /\ i_pc' = "parsed"
    /\ UNCHANGED <<i_idsb, i_info>>
    /\ UNCHANGED <<tvars, cvars, evars, dvars, rvars, pvars, nvars>>

\* one call get_drive_info(idsb); the file it found is noted with the outcome
GetDriveInfo ==
    /\ i_pc = "parsed" /\ Len(i_info) < MaxLookups
    /\ i_info' = Append(i_info, [file |-> disks_ini,
                                 out  |-> get_drive_info(i_idsb, disks_ini)])
    /\ UNCHANGED <<i_idsb, i_parsed, i_pc>>
    /\ UNCHANGED <<tvars, cvars, evars, dvars, rvars, pvars, nvars>>

\* the host rewrites the snapshot file
IniRewrite ==
    /\ i_pc = "parsed" /\ rewrites < MaxRewrites
    /\ disks_ini \in HostFiles
    /\ disks_ini' \in HostFiles \ {disks_ini}
    /\ rewrites' = rewrites + 1
    /\ UNCHANGED <<hwmon_links, sensor_files>>
    /\ UNCHANGED <<tvars, cvars, dvars, rvars, pvars, ivars, nvars>>

(***************************************************************************)
(* Claims about unraid_disk.                                               *)
(***************************************************************************)
\* How the file format reads a line: nothing, a [Section] header, a
\* key=value field, or malformed.
Ignored(l)    == Strip(l) = <<>> \/ Strip(l)[1] \in {"#", ";"}
Closes(l)     == {j \in 3..Len(Strip(l)) :
                     Strip(l)[j] = "]" /\ \A k \in 2..(j - 1) : Strip(l)[k] # "]"}
IsHeader(l)   == ~Ignored(l) /\ Strip(l)[1] = "[" /\ Closes(l) # {}
HeaderName(l) == Strip(SubSeq(Strip(l), 2, (CHOOSE j \in Closes(l) : TRUE) - 1))
Equals(l)     == {j \in 2..Len(Strip(l)) :
                     Strip(l)[j] = "=" /\ \A k \in 1..(j - 1) : Strip(l)[k] # "="}
IsField(l)    == ~Ignored(l) /\ ~IsHeader(l) /\ Equals(l) # {}
FieldKey(l)   == Strip(SubSeq(Strip(l), 1, (CHOOSE j \in Equals(l) : TRUE) - 1))
Unquoted(v)   == IF Len(v) >= 2 /\ v[1] = "\"" /\ v[Len(v)] = "\""
                 THEN SubSeq(v, 2, Len(v) - 1) ELSE v
FieldValue(l) == Unquoted(Strip(SubSeq(Strip(l), (CHOOSE j \in Equals(l) : TRUE) + 1,
                                       Len(Strip(l)))))

\* the header line a line stands under: the last one before it, 0 if none
Owner(ls, i) ==
    LET before == {h \in 1..(i - 1) : IsHeader(ls[h])}
    IN  IF before = {} THEN 0 ELSE CHOOSE h \in before : \A g \in before : g <= h

\* the field lines that follow headers of the section named n
FieldLines(ls, n) ==
    {i \in 1..Len(ls) :
        IsField(ls[i]) /\ Owner(ls, i) # 0 /\ HeaderName(ls[Owner(ls, i)]) = n}

\* the fields of section n: for each key, the value of its last line
FieldsOf(ls, n) ==
    {[k |-> FieldKey(ls[i]), v |-> FieldValue(ls[i])] :
        i \in {i \in FieldLines(ls, n) :
                  \A j \in FieldLines(ls, n) :
                      FieldKey(ls[j]) = FieldKey(ls[i]) => j <= i}}

SectionsOf(ls) ==
    {[sec |-> HeaderName(ls[h]), kv |-> FieldsOf(ls, HeaderName(ls[h]))] :
        h \in {h \in 1..Len(ls) : IsHeader(ls[h])}}

\* a parsed result as a set of sections, each a set of fields
AsSections(data) ==
    {[sec |-> data[i].sec, kv |-> {data[i].kv[j] : j \in 1..Len(data[i].kv)}] :
        i \in 1..Len(data)}

\* the file has not changed since it was parsed
ParsedNow == i_pc = "parsed" /\ rewrites = 0 /\ disks_ini.exists

\* C14: _parse_disks_ini returns exactly the sections opened by [Section]
\* lines, each holding exactly the key=value fields that follow it; blank and
\* comment lines add nothing, a field before any header and malformed lines
\* are skipped without error, quoted values lose their quotes; a comment
\* line, a blank line and [Disk1] with idSb=ABC123 give one section with one
\* field.
C14_ParsesSectionsAndFields ==
    ParsedNow =>
        /\ i_parsed.exc = "none"
        /\ AsSections(i_parsed.val) = SectionsOf(disks_ini.lines)
        /\ disks_ini = ExampleIni =>
              i_parsed.val = <<[sec |-> <<"D", "i", "s", "k", "1">>,
                                kv  |-> <<[k |-> IDSB, v |-> ABC123]>>]>>

\* the sections get_drive_info scans in a file, in dict order
Scanned(file) == IF file.exists THEN _parse_disks_ini(file).val ELSE <<>>
Fields(kv)    == {kv[j] : j \in 1..Len(kv)}
Keys(kv)      == {kv[j].k : j \in 1..Len(kv)}
Matching(idsb, disks) ==
    {i \in 1..Len(disks) : [k |-> IDSB, v |-> idsb] \in Fields(disks[i].kv)}
First(S)      == CHOOSE i \in S : \A j \in S : i <= j

\* C15 as stated: get_drive_info(id) returns the full field map of the first
\* section whose idSb equals id, with that section's name under _section;
\* when no section's idSb equals id it fails and returns nothing.
C15_SectionNameUnderSection ==
    \A n \in 1..Len(i_info) :
        LET disks == Scanned(i_info[n].file)
            hit   == Matching(i_idsb, disks)
            out   == i_info[n].out
        IN  IF hit = {} THEN out.exc # "none"
            ELSE /\ out.exc = "none"
                 /\ Fields(out.val) =
                        {f \in Fields(disks[First(hit)].kv) : f.k # SECTION}
                        \cup {[k |-> SECTION, v |-> disks[First(hit)].sec]}

\* C15: get_drive_info(id) returns the full field map of the first section
\* whose idSb equals id, and with it the section's name under _section
\* unless the section has a field _section of its own, which is kept; when
\* no section's idSb equals id it fails with ValueError, and with
\* FileNotFoundError when the file is missing.
C15_SectionNameUnlessField ==
    \A n \in 1..Len(i_info) :
        LET disks == Scanned(i_info[n].file)
            hit   == Matching(i_idsb, disks)
            out   == i_info[n].out
        IN  IF ~i_info[n].file.exists THEN out.exc = "FileNotFoundError"
            ELSE IF hit = {} THEN out.exc = "ValueError"
            ELSE /\ out.exc = "none"
                 /\ Cardinality(Keys(out.val)) = Len(out.val)
                 /\ Fields(out.val) =
                        Fields(disks[First(hit)].kv)
                        \cup (IF SECTION \in Keys(disks[First(hit)].kv) THEN {}
                              ELSE {[k |-> SECTION, v |-> disks[First(hit)].sec]})

\* two sections hold the id: the lookup returned the first, Disk1, with its
\* name added
C15_Witness ==
    /\ i_idsb = ABC123
    /\ \E n \in 1..Len(i_info) :
          /\ i_info[n].file = TwoMatchIni
          /\ i_info[n].out = Ret(<<[k |-> IDSB, v |-> ABC123],
                                   [k |-> SECTION, v |-> <<"D", "i", "s", "k", "1">>]>>)

\* the section found has a field _section, which came back in place of the
\* section's name
C15_WitnessOwnField ==
    /\ i_idsb = ABC123
    /\ \E n \in 1..Len(i_info) :
          /\ i_info[n].file = FileLines(<<L_DISK1, L_ABC, L_SECTION>>)
          /\ i_info[n].out = Ret(<<[k |-> IDSB, v |-> ABC123],
                                   [k |-> SECTION, v |-> <<"z", "z">>]>>)

\* C16: every get_drive_info call parses the snapshot file as it is at the
\* time of the call: after a rewrite a lookup reflects only the new content
\* and nothing of an earlier parse.
C16_LookupsParseFileAtCall ==
    \A n \in 1..Len(i_info) :
        /\ i_info[n].out = DriveInfoFrom(i_idsb, _parse_disks_ini(i_info[n].file))
        /\ \A m \in 1..Len(i_info) :
              i_info[m].file = i_info[n].file => i_info[m].out = i_info[n].out

\* ABC123 was found in the file as first written; the file was rewritten
\* without it and the next lookup failed
C16_Witness ==
    /\ i_idsb = ABC123 /\ Len(i_info) = 2
    /\ i_parsed = _parse_disks_ini(StdIni)
    /\ i_info[1].file = StdIni /\ i_info[1].out.exc = "none"
    /\ i_info[2].file = NewIni /\ i_info[2].out.exc = "ValueError"

(***************************************************************************)
(* Claims about read_unraid_disk_sensor.                                   *)
(***************************************************************************)
DiskReadDone ==
    /\ rd_pc = "done" /\ rd_source = "unraid_disk"
    /\ IsSome(rd_sensor.disk_id) /\ The(rd_sensor.disk_id) # <<>>

\* what get_value gives for the sensor's disk and field in the file
LookedUp ==
    get_value(The(rd_sensor.disk_id),
              IF IsSome(rd_sensor.field) THEN The(rd_sensor.field) ELSE TEMP,
              disks_ini)

\* C17: when the looked-up field value is "*" or "-", or the field is absent
\* from the record, read_unraid_disk_sensor returns None through the
\* non-error path: nothing is parsed or transformed and no parse-error
\* diagnostic is printed.
C17_SentinelIsMissingNotError ==
    (DiskReadDone /\ LookedUp \in {Ret(Absent), Ret(Some(<<"*">>)), Ret(Some(<<"-">>))}) =>
        /\ rd_result.exc = "none" /\ rd_result.val = PyNone
        /\ rd_result.diag = (IF LookedUp = Ret(Absent) THEN "no_data" ELSE "skipping")

\* disk2 is spun down, its temp is "*": the read gave None and said so
C17_Witness ==
    /\ DiskReadDone /\ disks_ini = StdIni
    /\ rd_sensor.disk_id = Some(DEF456) /\ rd_sensor.field = Absent
    /\ rd_sensor.transform = ValueDiv(0)
    /\ LookedUp = Ret(Some(<<"*">>))
    /\ rd_result.val = PyNone /\ rd_result.diag = "skipping"

\* the number a float truncates to
Truncated(v) == IF v.n < 0 THEN -((-v.n) \div v.d) ELSE v.n \div v.d

\* C18: a disk sensor that reads successfully returns an integer, the
\* transformed value truncated, exactly when its ds_type is COUNTER, DERIVE
\* or ABSOLUTE; for GAUGE or no ds_type the transformed value is returned
\* as it is.
C18_IntegerForCounterTypes ==
    (DiskReadDone /\ rd_result.exc = "none" /\ rd_result.val # PyNone) =>
        LET tv == apply_transform(ParseFloat(The(LookedUp.val)).val, rd_sensor.transform).val
        IN  IF rd_sensor.ds_type \in {Some(COUNTER), Some(DERIVE), Some(ABSOLUTE)}
            THEN rd_result.val = PyInt(Truncated(tv))
            ELSE rd_result.val = tv /\ rd_result.val.t = "float"

\* rotational is "1.5" for disk2: negated, as a DERIVE source, it was read
\* as the integer -1
C18_Witness ==
    /\ DiskReadDone /\ disks_ini = StdIni
    /\ rd_sensor.disk_id = Some(DEF456) /\ rd_sensor.field = Some(ROTATIONAL)
    /\ rd_sensor.transform = ValueNegated /\ rd_sensor.ds_type = Some(DERIVE)
    /\ rd_result.val = PyInt(-1)

(***************************************************************************)
(* Claims about the order and independence of the reads of a run.          *)
(***************************************************************************)
ConfigLoaded == Exists(config_dir, c_config) /\ CurrentConfig.json
RunSubmits   == SelectSeq(submits, LAMBDA s : s.config = c_config)

\* C19: within one run each configured sensor is read exactly once, in
\* declared order, one after the other and without retry; the single submit
\* is made only after all N sensors have been read.
C19_EachSensorReadOnceInOrder ==
    ConfigLoaded =>
        LET n == Len(CurrentConfig.sensors) IN
        /\ Len(RunReads) <= n
        /\ \A k \in 1..Len(RunReads) :
              RunReads[k].i = k /\ RunReads[k].sensor = CurrentConfig.sensors[k]
        /\ Len(RunSubmits) <= 1
        /\ RunSubmits # <<>> => Len(RunReads) = n
        /\ RunEnded => Len(RunReads) = n

\* the sensor's file, as a fresh process resolves its path, does not exist
FileMissing(sensor) ==
    /\ IsSome(sensor.path)
    /\ \A o \in GlobOrders :
          read_text(to_container_path(The(sensor.path), MapNone, hwmon, o,
                                      hwmon_links).path,
                    hwmon_links, sensor_files).exc = "FileNotFoundError"

\* the token of the sensor read on its own by a fresh process
Alone(sensor, files) ==
    Token(read_sysfs_sensor(sensor, MapNone, hwmon,
                            CHOOSE o \in GlobOrders : TRUE, hwmon_links, files).val)

\* the sensor files with the file of hwmon1 in place
WithFile1 == [sensor_files EXCEPT ![1] = SensorText(<<"3", "5", "\n">>)]

SysfsRunEnded ==
    RunEnded /\ SourceType(CurrentConfig) = "sysfs"

\* C20: in a run where a sysfs sensor's resolved file does not exist, that
\* sensor's position holds U and every other position holds exactly what it
\* would hold had that sensor succeeded: the failure changes no other entry.
C20_FailureChangesNoOtherEntry ==
    SysfsRunEnded =>
        LET ss == CurrentConfig.sensors IN
        /\ Len(values) = Len(ss)
        /\ \A i \in 1..Len(ss) :
              FileMissing(ss[i]) =>
                  /\ values[i] = <<"U">>
                  /\ \A j \in 1..Len(ss) :
                        ~FileMissing(ss[j]) =>
                            /\ values[j] = Alone(ss[j], sensor_files)
                            /\ values[j] = Alone(ss[j], WithFile1)

\* hwmon1 has no temp1_input: its sensor gave U and the k10temp sensor read
\* after it gave its value
C20_Witness ==
    /\ SysfsRunEnded
    /\ CurrentConfig.sensors = <<Hwmon1Temp, CpuTemp>>
    /\ sensor_files[1] = NoSensorFile
    /\ FileMissing(Hwmon1Temp)
    /\ values = <<<<"U">>, <<"5", "0", ".", "0">>>>

(***************************************************************************)
(* Claims about the recursion and the result of to_container_path.         *)
(***************************************************************************)
LegacyPlaceholder(p) == StartsWith(p, <<"/", "h", "o", "s", "t", "/", "{">>)

\* C24: to_container_path terminates and re-enters itself at most once: the
\* legacy /host/{chip}/ form is rewritten to /hostsys/{chip}/ and processed
\* one more time, and the rewritten string never takes the legacy branch
\* again.
C24_ReentersAtMostOnce ==
    PathCalled =>
        /\ p_result.depth <= 1
        /\ p_result.depth = 1 => LegacyPlaceholder(p_path)
        /\ (LegacyPlaceholder(p_path) /\ (ChipUnresolved \/ ~HasToken(p_path))) =>
              /\ p_result.depth = 1
              /\ p_result.path =
                    AsResolved(SYS_MOUNT \o SubSeq(p_path, Len(<<"/", "h", "o", "s", "t">>) + 1, Len(p_path)))

\* no chip is known: /host/{k10temp}/temp1_input was rewritten, processed
\* once more and returned with its placeholder under /hostsys
C24_Witness ==
    /\ PathCalled /\ p_path = LEGACY_K10TEMP
    /\ \A d \in HwmonDirs : hwmon[d] = NoNameFile
    /\ p_result.depth = 1 /\ p_result.lookups = 2
    /\ p_result.path = K10TEMP_TEMP

\* the forms of path the function accepts
Accepted(p) ==
    \/ StartsWith(p, <<"/", "s", "y", "s", "/", "c", "l", "a", "s", "s", "/", "h", "w", "m", "o", "n", "/", "h", "w", "m", "o", "n">>)
    \/ StartsWith(p, <<"/", "h", "o", "s", "t", "s", "y", "s", "/", "{">>)
    \/ StartsWith(p, <<"/", "h", "o", "s", "t", "/", "{">>)
    \/ StartsWith(p, <<"/", "h", "o", "s", "t", "/", "h", "w", "m", "o", "n">>)

C26_FloatOrValueError ==
    t_pc = "done" =>
        \/ t_result.exc = "none" /\ t_result.val.t = "float"
        \/ t_result.exc = "ValueError"

(***************************************************************************)
(* Claims about unknown sources, disabled configs and collect_all.         *)
(***************************************************************************)
ConfigOf(name)   == ContentOf(config_dir, name)
KnownSource(cfg) == cfg.source_type \in {Absent, Some("sysfs"), Some("unraid_disk")}
AllU(n)          == [k \in 1..n |-> <<"U">>]

\* C22: with a source type other than sysfs or unraid_disk, read_sensor
\* returns None for every sensor without raising, and the run completes and
\* submits N tokens U.
C22_UnknownSourceAllMissing ==
    /\ \A k \in 1..Len(reads) :
          ~KnownSource(ConfigOf(reads[k].config)) =>
              /\ reads[k].exc = "none" /\ reads[k].val = PyNone
              /\ reads[k].diag = "unknown_source_type"
    /\ (RunEnded /\ ~KnownSource(CurrentConfig)) =>
          /\ c_exit = 0
          /\ Len(RunReads) = Len(CurrentConfig.sensors)
          /\ values = AllU(Len(CurrentConfig.sensors))
          /\ IsSome(CurrentConfig.rrd_path) /\ The(CurrentConfig.rrd_path) # <<>> =>
                /\ Len(RunSubmits) = 1
                /\ RunSubmits[1].tokens = AllU(Len(CurrentConfig.sensors))
                /\ RunSubmits[1].rrd_values =
                      <<"N", ":">> \o JoinColon(AllU(Len(CurrentConfig.sensors)))

\* an snmp config with a readable sysfs sensor and a disk sensor submitted
\* N:U:U
C22_Witness ==
    /\ RunEnded /\ CurrentConfig.source_type = Some("snmp")
    /\ CurrentConfig.sensors = <<CpuTemp, DiskTemp>>
    /\ Len(RunSubmits) = 1
    /\ RunSubmits[1].rrd_values = <<"N", ":", "U", ":", "U">>

\* the config says "enabled": false
Disabled(cfg) == cfg.json /\ cfg.enabled = Some(FALSE)
Started(name) == \E k \in 1..Len(ca_log) : ca_log[k] = Logged(name, "started")

\* C27: for a config whose enabled flag is false, update_rrd reads no sensor
\* and submits nothing, and collect_all starts no collection process for it.
C27_DisabledDoesNothing ==
    /\ \A k \in 1..Len(reads) : ~Disabled(ConfigOf(reads[k].config))
    /\ \A k \in 1..Len(submits) : ~Disabled(ConfigOf(submits[k].config))
    /\ \A f \in config_dir : Disabled(f.content) => ~Started(f.name)
    /\ (c_pc = "exited" /\ Exists(config_dir, c_config) /\ Disabled(CurrentConfig)) =>
          c_exit = 0 /\ values = <<>>

\* collect_config was given a disabled config with two sensors and ended
\* without a read or a submit
C27_Witness ==
    /\ entry = "collect_config" /\ c_pc = "exited" /\ c_exit = 0
    /\ Exists(config_dir, c_config) /\ Disabled(CurrentConfig)
    /\ Len(CurrentConfig.sensors) = 2 /\ CurrentConfig.rrd_path = Some(RRD_PATH)
    /\ reads = <<>> /\ submits = <<>>

\* collect_all skipped the disabled disks.json and collected system.json
C27_WitnessAll ==
    /\ entry = "collect_all" /\ ca_pc = "done"
    /\ Exists(config_dir, DISKS_JSON) /\ Disabled(ConfigOf(DISKS_JSON))
    /\ ca_log[1] = Logged(DISKS_JSON, "skipped")
    /\ Started(SYSTEM_JSON) /\ ~Started(DISKS_JSON)

\* the names collect_all handed to a collection process, in that order
StartedNames ==
    LET st == SelectSeq(ca_log, LAMBDA e : e.what = "started")
    IN  [k \in 1..Len(st) |-> st[k].name]

\* the .json files of the directory that parse and are not disabled
Collectable ==
    {f.name : f \in {g \in config_dir :
        /\ EndsWith(g.name, <<".", "j", "s", "o", "n">>)
        /\ g.content.json /\ ~Disabled(g.content)}}

\* C28: in one collect_all invocation every enabled config file is handed to
\* a collection process exactly once, in sorted file-name order, and a
\* failure on one config (unparsable JSON, an exception, a non-zero exit of
\* its collection) never keeps the configs after it from being processed.
C28_EachEnabledConfigOnceInOrder ==
    entry = "collect_all" =>
        /\ \A k \in 1..Len(StartedNames) : StartedNames[k] \in Collectable
        /\ \A j, k \in 1..Len(StartedNames) :
              j < k => LexLess(StartedNames[j], StartedNames[k])
        /\ ca_pc = "done" => {StartedNames[k] : k \in 1..Len(StartedNames)} = Collectable
        /\ (ca_pc = "exit1") => Collectable = {}

\* the collection of disks.json crashed with status 1, and system.json was
\* collected after it
C28_Witness ==
    /\ entry = "collect_all" /\ ca_pc = "done"
    /\ StartedNames = <<DISKS_JSON, SYSTEM_JSON>>
    /\ LoggedFailed(DISKS_JSON) /\ ~LoggedFailed(SYSTEM_JSON)
    /\ \E k \in 1..Len(submits) : submits[k].config = SYSTEM_JSON

\* C23: a disk sensor with no disk_id (absent or empty) returns None at
\* once: the snapshot file is not read and nothing is looked up, so the
\* outcome is the same whatever the file holds and also when it is missing.
C23_NoDiskIdNoLookup ==
    (/\ rd_pc = "done" /\ rd_source = "unraid_disk"
     /\ rd_sensor.disk_id \in {Absent, Some(<<>>)}) =>
        /\ rd_result.exc = "none" /\ rd_result.val = PyNone
        /\ rd_result.diag = "missing_disk_id"

\* the sensor has an empty disk_id and there is no disks.ini: the read said
\* the disk_id is missing, not that the file could not be read
C23_Witness ==
    /\ rd_pc = "done" /\ rd_source = "unraid_disk"
    /\ rd_sensor.disk_id = Some(<<>>) /\ disks_ini = NoFile
    /\ rd_result.val = PyNone /\ rd_result.diag = "missing_disk_id"

(***************************************************************************)
(* init_config: the creation of the RRD.                                   *)
(***************************************************************************)
MaxInits == 2     \* most runs of init_config.py over one config

\* a sensor of a config with the keys create_rrd looks at
WithDs(sensor, id, min, max) == sensor @@ [id |-> id, min |-> min, max |-> max]

\* one archive of config["rrd"]["archives"]
Archive(cf, xff, steps, rows) == [cf |-> cf, xff |-> xff, steps |-> steps, rows |-> rows]

\* a config with (or without) its "rrd" section
WithRrd(cfg, rrd) == cfg @@ [rrd |-> rrd]
RrdSection(step, archives) == [step |-> step, archives |-> archives]

\* f"DS:{sensor['id']}:{ds_type}:{step*2}:{min_val}:{max_val}"
DsText(sensor, step) ==
    <<"D", "S", ":">> \o The(sensor.id) \o <<":">>
      \o (IF IsSome(sensor.ds_type) THEN The(sensor.ds_type) ELSE GAUGE) \o <<":">>
      \o IntStr(step * 2) \o <<":">>
      \o (IF IsSome(sensor.min) THEN IntStr(The(sensor.min)) ELSE <<"0">>) \o <<":">>
      \o (IF IsSome(sensor.max) THEN IntStr(The(sensor.max)) ELSE <<"U">>)

\* the data sources listed from the last sensor to the first
DataSourcesReversed(sensors, step) ==
    [i \in 1..Len(sensors) |-> DsText(sensors[Len(sensors) + 1 - i], step)]

\* the loop over config['sensors']: one DS argument for each, in order
DataSources(sensors, step) ==
    [i \in 1..Len(sensors) |-> DsText(sensors[i], step)]

\* f"RRA:{cf}:{xff}:{steps}:{rows}"
RraText(a) ==
    <<"R", "R", "A", ":">> \o a.cf \o <<":">> \o PyStrOf(a.xff) \o <<":">>
      \o IntStr(a.steps) \o <<":">> \o IntStr(a.rows)

\* the loop over config['rrd']['archives']
Archives(archives) == [i \in 1..Len(archives) |-> RraText(archives[i])]

\* the existence test that finds no file
RrdNeverExists(file) == FALSE

\* Path(rrd_path).exists()
RrdExists(file) == IsSome(file)

NoCommand(status) == [exit |-> status, issued |-> FALSE]
Command(rrd_path, step, ds, rra) ==
    [exit |-> 0, issued |-> TRUE, rrd_path |-> rrd_path, step |-> IntStr(step),
     ds |-> ds, rra |-> rra]

\* create_rrd up to subprocess.run: a config that is not JSON, has no "rrd"
\* section or has a sensor without "id" ends the process with a traceback;
\* a disabled config and an existing file end it quietly
create_rrd(cfg, file) ==
    IF ~cfg.json THEN NoCommand(1)
    ELSE IF ~Enabled(cfg) THEN NoCommand(0)
    ELSE IF NoDestination(cfg) THEN NoCommand(1)
    ELSE IF RrdExists(file) THEN NoCommand(0)
    ELSE IF ~IsSome(cfg.rrd) THEN NoCommand(1)
    ELSE IF \E i \in 1..Len(cfg.sensors) : ~IsSome(cfg.sensors[i].id) THEN NoCommand(1)
    ELSE Command(The(cfg.rrd_path), The(cfg.rrd).step,
                 DataSources(cfg.sensors, The(cfg.rrd).step),
                 Archives(The(cfg.rrd).archives))

\* what rrdtool create can return: it refuses a command without data
\* sources or archives, and one that names a data source twice
RrdtoolCreateStatus(cmd, names) ==
    IF \/ cmd.ds = <<>> \/ cmd.rra = <<>>
       \/ \E i, j \in 1..Len(names) : i # j /\ names[i] = names[j]
    THEN {1} ELSE {0, 1}

\* one run of init_config.py: main, create_rrd, and the file rrdtool
\* writes when it succeeds
CreateRrd ==
    /\ c_pc = "main"
    /\ inits < MaxInits
    /\ inits' = inits + 1
    /\ IF ~Exists(config_dir, c_config) THEN
           n_exit' = 1 /\ UNCHANGED <<rrd_file, creates>>
       ELSE \E r \in {create_rrd(ContentOf(config_dir, c_config), rrd_file)} :
           IF ~r.issued THEN
               n_exit' = r.exit /\ UNCHANGED <<rrd_file, creates>>
           ELSE \E rc \in RrdtoolCreateStatus(r,
                              [i \in 1..Len(ContentOf(config_dir, c_config).sensors) |->
                                  The(ContentOf(config_dir, c_config).sensors[i].id)]) :
               /\ creates' = Append(creates,
                      [config |-> c_config, rrd_path |-> r.rrd_path, step |-> r.step,
                       ds |-> r.ds, rra |-> r.rra, returncode |-> rc,
                       found |-> rrd_file])
               /\ rrd_file' = IF rc = 0 THEN Some([ds |-> r.ds, rra |-> r.rra,
                                                   made |-> Len(creates) + 1])
                              ELSE rrd_file
               /\ n_exit' = IF rc = 0 THEN 0 ELSE 1
    /\ UNCHANGED <<tvars, cvars, evars, dvars, rvars, pvars, ivars>>

\* the configs and the machine of an initialization followed by a collection
CPU   == <<"c", "p", "u">>
BOARD == <<"b", "o", "a", "r", "d">>
TICKS == <<"t", "i", "c", "k", "s">>
AVERAGE == <<"A", "V", "E", "R", "A", "G", "E">>
Ticks == Sensor(Some(K10TEMP_TEMP), ExprNone, Absent, Absent, Some(COUNTER))

InitSensors == {WithDs(CpuTemp, Some(CPU), Absent, Absent),
                WithDs(Hwmon1Temp, Some(BOARD), Some(-40), Some(125)),
                WithDs(Ticks, Some(TICKS), Absent, Absent),
                WithDs(DivByZero, Some(BOARD), Absent, Absent),
                WithDs(CpuTemp, Absent, Absent, Absent)}

StdRrd == RrdSection(60, <<Archive(AVERAGE, PyFloatV(1, 2), 1, 1440)>>)

InitConfigs == {WithRrd(Config(e, Absent, p, ss), rrd) :
                   e \in {Absent, Some(FALSE)}, p \in {Absent, Some(RRD_PATH)},
                   ss \in SeqsUpTo(InitSensors, MaxSensors), rrd \in {Absent, Some(StdRrd)}}

\* an RRD that was at rrd_path before any run
OldRrd == [ds |-> <<<<"D", "S", ":", "o", "l", "d", ":", "G", "A", "U", "G", "E", ":", "1", "2", "0", ":", "0", ":", "U">>>>, rra |-> <<<<"R", "R", "A", ":", "A", "V", "E", "R", "A", "G", "E", ":", "0", ".", "5", ":", "1", ":", "1", "0">>>>, made |-> 0]

RrdStart ==
    /\ FreshProcess
    /\ hwmon = (0 :> NameText(K10TEMP_LOWER \o <<"\n">>) @@ 1 :> NoNameFile)
    /\ hwmon_links = (0 :> "rel" @@ 1 :> "dir")
    /\ rewrites = 0
    /\ disks_ini = NoFile
    /\ sensor_files \in {(0 :> SensorText(<<"5", "0", "0", "0", "0", "\n">>) @@ 1 :> f) :
                            f \in {NoSensorFile, SensorText(<<"3", "5", "\n">>)}}
    /\ \E c \in InitConfigs \cup {Unparsable} : config_dir = {File(SYSTEM_JSON, c)}
    /\ entry = "collect_config" /\ ca_pc = "idle" /\ c_pc = "main"
    /\ c_config \in {SYSTEM_JSON, MISSING_JSON}
    /\ config_files = <<>> /\ ca_i = 0 /\ ca_log = <<>>
    /\ c_i = 0 /\ values = <<>> /\ c_exit = 0
    /\ reads = <<>> /\ submits = <<>>
    /\ rrd_file \in {Absent, Some(OldRrd)}
    /\ creates = <<>> /\ inits = 0 /\ n_exit = 0

(***************************************************************************)
(* Claims about the creation of the RRD.                                   *)
(***************************************************************************)
RECURSIVE SplitColon(_)
\* text.split(":")
SplitColon(text) ==
    IF \A i \in 1..Len(text) : text[i] # ":" THEN <<text>>
    ELSE LET k == CHOOSE i \in 1..Len(text) :
                     text[i] = ":" /\ \A j \in 1..(i - 1) : text[j] # ":"
         IN  <<SubSeq(text, 1, k - 1)>> \o SplitColon(SubSeq(text, k + 1, Len(text)))

\* the name of the data source a DS argument defines
DsName(ds) == SplitColon(ds)[2]

\* the values of one rrdtool update, after the "N"
Submitted(s) == Tail(SplitColon(s.rrd_values))

\* C21: for one unchanged config, every rrdtool create command lists exactly
\* one data source per configured sensor, data source i named after sensor i,
\* and every later update submits exactly that many values, value i being the
\* token of the read of sensor i.
C21_UpdatePositionsMatchDataSources ==
    \A k \in 1..Len(creates) :
        LET ss == CurrentConfig.sensors
            ds == creates[k].ds
        IN  /\ Len(ds) = Len(ss)
            /\ \A i \in 1..Len(ss) :
                  /\ SplitColon(ds[i])[1] = <<"D", "S">>
                  /\ DsName(ds[i]) = The(ss[i].id)
            /\ \A j \in 1..Len(RunSubmits) :
                  LET vs == Submitted(RunSubmits[j]) IN
                  /\ ss # <<>> => Len(vs) = Len(ds)
                  /\ Len(RunReads) = Len(ss)
                  /\ \A i \in 1..Len(ss) :
                        /\ RunReads[i].sensor = ss[i]
                        /\ The(RunReads[i].sensor.id) = DsName(ds[i])
                        /\ vs[i] = Token(RunReads[i].val)

\* an RRD was created with two data sources and an update with a number and
\* an unknown has been submitted
C21_Witness ==
    /\ Len(creates) = 1 /\ creates[1].returncode = 0
    /\ Len(creates[1].ds) = 2
    /\ DsName(creates[1].ds[1]) # DsName(creates[1].ds[2])
    /\ Len(RunSubmits) = 1
    /\ Submitted(RunSubmits[1])[1] # <<"U">>
    /\ Submitted(RunSubmits[1])[2] = <<"U">>

\* C29: once an RRD is at rrd_path, no run of the initialization issues
\* rrdtool create or changes the file, so over any number of runs the RRD is
\* created at most once and an existing file stays as it was.
C29_ExistingRrdNeverRecreated ==
    [][IsSome(rrd_file) => creates' = creates /\ rrd_file' = rrd_file]_vars

\* the first run created the RRD and the second found it and issued nothing
C29_Witness ==
    /\ inits = 2 /\ n_exit = 0
    /\ Len(creates) = 1 /\ creates[1].returncode = 0
    /\ rrd_file = Some([ds |-> creates[1].ds, rra |-> creates[1].rra, made |-> 1])

(* ---- specifications ---- *)
(***************************************************************************)
(* The specifications: each starts one part of the program and leaves the  *)
(* others at rest.                                                         *)
(***************************************************************************)
TransformIdle ==
    /\ t_value = PyFloatV(0, 1) /\ t_expr = ExprNone
    /\ t_result = Pending /\ t_pc = "idle"

ChipIdle ==
    /\ hwmon = [d \in HwmonDirs |-> NoNameFile]
    /\ FreshProcess

EnvIdle ==
    /\ hwmon_links = [d \in HwmonDirs |-> "dir"]
    /\ sensor_files = [d \in HwmonDirs |-> NoSensorFile]
    /\ disks_ini = NoFile
    /\ rewrites = 0

ReadIdle ==
    /\ rd_sensor = Sensor(Absent, ExprNone, Absent, Absent, Absent)
    /\ rd_source = "sysfs" /\ rd_result = NoRead /\ rd_pc = "idle"

RunIdle ==
    /\ config_dir = {} /\ entry = "none" /\ ca_pc = "idle" /\ config_files = <<>>
    /\ ca_i = 0 /\ ca_log = <<>> /\ c_pc = "idle" /\ c_config = <<>> /\ c_i = 0
    /\ values = <<>> /\ c_exit = 0 /\ reads = <<>> /\ submits = <<>>

PathIdle ==
    /\ p_path = <<>> /\ p_result = NoPathCall /\ p_read = NoRead /\ p_pc = "idle"

IniIdle ==
    /\ i_idsb = <<>> /\ i_parsed = Ret(<<>>) /\ i_info = <<>> /\ i_pc = "idle"

RrdIdle ==
    /\ rrd_file = Absent /\ creates = <<>> /\ inits = 0 /\ n_exit = 0

Rest == PathIdle /\ IniIdle /\ RrdIdle

InitTransform == TransformStart /\ ChipIdle /\ EnvIdle /\ ReadIdle /\ RunIdle /\ Rest
NextTransform == CallTransform
SpecTransform == InitTransform /\ [][NextTransform]_vars

InitChip == ChipStart /\ TransformIdle /\ EnvIdle /\ ReadIdle /\ RunIdle /\ Rest
NextChip == LookupChip \/ HwmonChange
SpecChip == InitChip /\ [][NextChip]_vars

InitRead == ReadStart /\ TransformIdle /\ RunIdle /\ Rest
NextRead == ReadSensor
SpecRead == InitRead /\ [][NextRead]_vars

InitPath == PathStart /\ TransformIdle /\ ReadIdle /\ RunIdle /\ IniIdle /\ RrdIdle
NextPath == CallToContainerPath \/ ReadSensorAtPath
SpecPath == InitPath /\ [][NextPath]_vars

InitIni == IniStart /\ TransformIdle /\ ChipIdle /\ ReadIdle /\ RunIdle /\ PathIdle /\ RrdIdle
NextIni == ParseDisksIni \/ GetDriveInfo \/ IniRewrite
SpecIni == InitIni /\ [][NextIni]_vars

InitRrd == RrdStart /\ TransformIdle /\ ReadIdle /\ PathIdle /\ IniIdle
NextRrd == CreateRrd \/ CollectConfigMain \/ ReadNextSensor \/ SubmitValues
SpecRrd == InitRrd /\ [][NextRrd]_vars

Init == RunStart /\ TransformIdle /\ ReadIdle /\ Rest
Next ==
    \/ CollectAllMain
    \/ ProcessConfig
    \/ ChildReturned
    \/ CollectAllComplete
    \/ CollectConfigMain
    \/ ReadNextSensor
    \/ SubmitValues
    \/ DisksRewrite
Spec == Init /\ [][Next]_vars

====
